---- MODULE Spec2Model ----
(***************************************************************************)
(* A model of the training engine of the template recognizer               *)
(* (src/src/recogtrain.c): ingestion of labeled samples into the sample    *)
(* store, finalization, average templates and outlier removal.             *)
(*                                                                         *)
(* A recognizer (L_RECOG) is a record.  A sample (PIX, 1 bpp) is a record  *)
(* [text, pix] whose pix is a bitmap [w, h, fg]; fg is the set of          *)
(* foreground pixels <<x, y>>.  A text is a sequence of character codes;   *)
(* the empty sequence stands for both a NULL and an empty C string, which  *)
(* the code treats alike everywhere.  A float is an exact fraction [n, d] *)
(* (centroids) or an integer number of hundredths (scores, fractions).     *)
(***************************************************************************)
EXTENDS Integers, Sequences, FiniteSets, TLC

VARIABLES recog,    \* the L_RECOG being trained
          call,     \* the last call made on it, with its inputs
          ret,      \* the status returned by that call
          ostate    \* the state of one recogRemoveOutliers() run

vars == <<recog, call, ret, ostate>>

\* A pointer to an array is <<>> (NULL) or <<a>> for the array a.
NULL == <<>>
Ptr(a) == <<a>>
Deref(p) == p[1]

\* no pix: a NULL pointer to a 1 bpp and to an 8 bpp pix
NullPix == [w |-> 0, h |-> 0, fg |-> {}]
NullPix8 == [w |-> 0, h |-> 0, val |-> <<>>]

(***************************************************************************)
(* Bounds of the model                                                     *)
(***************************************************************************)
\* number of class slots preallocated by recogCreate(): maxarraysize
\* (256 in the program, scaled down here)
MaxArraySize == 2
\* cap on the running sample counter of the trained recognizer
MaxSamples == 2
\* largest number of components the segmentation of one image returns
MaxComp == 2
\* largest number of samples in one recogAddSamples() batch
MaxBatch == 2
\* largest number of templates given to recogRemoveOutliers()
MaxOutlierSamples == 3

\* the height to which recogRemoveOutliers() scales the templates (40 in
\* the program, scaled down here)
OutlierScaleH == 2

\* only the first 256 samples of a class are averaged
AveLimit == 256

\* the defaults of recogRemoveOutliers(), in hundredths
DEFAULT_MIN_SCORE == 75
DEFAULT_MIN_FRACTION == 50

(***************************************************************************)
(* Small helpers                                                           *)
(***************************************************************************)
Min(a, b) == IF a < b THEN a ELSE b
Max(a, b) == IF a > b THEN a ELSE b

Range(s) == {s[k] : k \in DOMAIN s}

RECURSIVE SumSeq(_)
SumSeq(s) == IF s = <<>> THEN 0 ELSE s[1] + SumSeq(Tail(s))

RECURSIVE SeqsUpTo(_, _)
SeqsUpTo(S, k) ==
  IF k = 0 THEN {<<>>}
  ELSE LET shorter == SeqsUpTo(S, k - 1)
       IN  shorter \cup {Append(s, x) : s \in {t \in shorter : Len(t) = k - 1}, x \in S}

(***************************************************************************)
(* Character strings                                                       *)
(***************************************************************************)
NoText == <<>>
Txt1 == <<49>>
Txt2 == <<50>>
Txt12 == <<49, 50>>
TxtLong == <<49, 49, 49, 49, 49>>

\* the bitmaps of the model: one row, foreground at different places
ImgA == [w |-> 2, h |-> 1, fg |-> {<<0, 0>>}]
ImgB == [w |-> 3, h |-> 1, fg |-> {<<1, 0>>, <<2, 0>>}]
Images == {ImgA, ImgB}
\* a bitmap of one column: scaled to a height of 2 it has no width
ImgT == [w |-> 1, h |-> 5, fg |-> {<<0, 0>>, <<0, 1>>, <<0, 2>>, <<0, 3>>, <<0, 4>>}]

Sample(text, pix) == [text |-> text, pix |-> pix]

\* pixGetText()
pixGetText(pixs) == pixs.text

\* pixSetText()
pixSetText(pixs, text) == [pixs EXCEPT !.text = text]

\* l_charToString(): the string of one character
l_charToString(byte) == <<byte>>

RECURSIVE CharstrVal(_)
CharstrVal(str) ==
  IF Len(str) = 1 THEN str[1]
  ELSE CharstrVal(SubSeq(str, 1, Len(str) - 1)) * 256 + str[Len(str)]

\* l_convertCharstrToInt(): 1 for no string, an empty one or one of
\* more than 4 bytes; else the bytes packed into an integer
l_convertCharstrToInt(str) ==
  IF Len(str) = 0 \/ Len(str) > 4
    THEN [ret |-> 1, val |-> 0]
    ELSE [ret |-> 0, val |-> CharstrVal(str)]

(***************************************************************************)
(* Arrays of arrays (PIXAA, PTAA, NUMAA)                                   *)
(***************************************************************************)
\* pixaaInitFull(), ptaaInitFull(), numaaCreateFull(): size empty arrays
InitFull(size) == [k \in 1..size |-> <<>>]

\* pixaaGetCount()
pixaaGetCount(paa) == Len(paa)

\* pixaaGetPixa(), ptaaGetPta(), numaaGetNuma() on a pointer to an array
\* of arrays: a pointer to the array at index, NULL when there is none
pixaaGetPixa(paap, index) ==
  IF paap = NULL THEN NULL
  ELSE IF index < 0 \/ index >= Len(Deref(paap)) THEN NULL
  ELSE Ptr(Deref(paap)[index + 1])

\* pixaGetCount(), ptaGetCount() on a pointer: 0 for NULL
pixaGetCount(pixap) == IF pixap = NULL THEN 0 ELSE Len(Deref(pixap))

\* numaGetIValue(na, index, &ival): 0 when the index is out of range
numaGetIValue(na, index) ==
  IF index < 0 \/ index >= Len(na) THEN 0 ELSE na[index + 1]

\* pixaaAddPix(), ptaaAddPt(), numaaAddNumber(): nothing is added when the
\* index names no array
pixaaAddPix(paa, index, pix) ==
  IF index < 0 \/ index >= Len(paa) THEN paa
  ELSE [paa EXCEPT ![index + 1] = Append(@, pix)]

\* pixaaTruncate(), ptaaTruncate(), numaaTruncate(): drop the empty arrays
\* at the end
RECURSIVE pixaaTruncate(_)
pixaaTruncate(paa) ==
  IF paa = <<>> THEN paa
  ELSE IF paa[Len(paa)] = <<>> THEN pixaaTruncate(SubSeq(paa, 1, Len(paa) - 1))
  ELSE paa

\* pixaaAddPixa(paa, pixaCreate(10), L_INSERT)
pixaaAddPixa(paa) == Append(paa, <<>>)

(***************************************************************************)
(* l_float32: a value is n / 2^e with e >= 0, n odd unless e = 0, and at   *)
(* most 24 significant bits in n; every operation rounds its exact result  *)
(* to the nearest such value, ties to the even one.  The values are below  *)
(* 2^24 in size and far above the smallest l_float32.                      *)
(***************************************************************************)
Abs(a) == IF a < 0 THEN -a ELSE a

Sign(n) == IF n < 0 THEN -1 ELSE 1

FZero == [n |-> 0, e |-> 0]

\* the l_float32 of an integer
FInt(k) == [n |-> k, e |-> 0]

\* the powers of two 2^0 .. 2^30
Pow2Tab ==
  <<1, 2, 4, 8, 16, 32, 64, 128, 256, 512, 1024, 2048, 4096, 8192, 16384,
    32768, 65536, 131072, 262144, 524288, 1048576, 2097152, 4194304,
    8388608, 16777216, 33554432, 67108864, 134217728, 268435456,
    536870912, 1073741824>>
Pow2(k) == Pow2Tab[k + 1]

\* the number of bits of 0 <= n < 2^31
BitLen4(n) == IF n < 4 THEN (IF n < 2 THEN n ELSE 2) ELSE (IF n < 8 THEN 3 ELSE 4)
BitLen8(n) == IF n < 16 THEN BitLen4(n) ELSE 4 + BitLen4(n \div 16)
BitLen16(n) == IF n < 256 THEN BitLen8(n) ELSE 8 + BitLen8(n \div 256)
BitLen(n) == IF n < 65536 THEN BitLen16(n) ELSE 16 + BitLen16(n \div 65536)

\* n \div 2^k for n >= 0 and any k >= 0
ShiftRight(n, k) == IF k > 30 THEN 0 ELSE n \div Pow2(k)

\* the value n / 2^e in its normal form: n odd unless e = 0
RECURSIVE Dyadic(_, _)
Dyadic(n, e) ==
  IF n = 0 THEN FZero
  ELSE IF e < 0 THEN [n |-> n * Pow2(-e), e |-> 0]
  ELSE IF e = 0 \/ n % 2 = 1 THEN [n |-> n, e |-> e]
  ELSE Dyadic(n \div 2, e - 1)

\* the l_float32 nearest to sign * (s + t) / 2^e, where s >= 0 is an integer
\* and t is 0, or some value strictly between 0 and 1 when sticky holds (s
\* has then more than 24 bits): the bits of s beyond 24 are rounded off
FloatRound(sign, s, sticky, e) ==
  LET k    == IF s < Pow2(24) THEN 0 ELSE BitLen(s) - 24
      q    == s \div Pow2(k)
      r    == s % Pow2(k)
      half == IF k = 0 THEN 0 ELSE Pow2(k - 1)
      up   == k > 0 /\ (r > half \/ (r = half /\ (sticky \/ q % 2 = 1)))
  IN  Dyadic(sign * (IF up THEN q + 1 ELSE q), e - k)

\* |x| * 2^ew as an integer v; lost is whether bits were cut off
ScaleTo(x, ew) ==
  IF ew >= x.e THEN [v |-> Abs(x.n) * Pow2(ew - x.e), lost |-> FALSE]
  ELSE [v |-> ShiftRight(Abs(x.n), x.e - ew),
        lost |-> ShiftRight(Abs(x.n), x.e - ew) * Pow2(Min(x.e - ew, 30)) # Abs(x.n)]

\* the finest unit 2^-ew in which both a and b stay below 2^29
WorkingExponent(a, b) ==
  IF Max(a.e, b.e) - Min(a.e, b.e) <= 5 THEN Max(a.e, b.e)
  ELSE Min(Max(a.e, b.e),
           Min(29 - BitLen(Abs(a.n)) + a.e, 29 - BitLen(Abs(b.n)) + b.e))

\* the rounded sum of a and b from their sizes sa and sb in units of
\* 2^-ew.  Only an operand that is less than 2^-5 of the other one can lose
\* bits by the choice of ew, and what it loses is below the bits that the
\* rounding keeps: the exact sum then lies strictly between the sum of
\* the integers and the next integer towards the operand that was cut.
FAddIn(a, b, sa, sb, sum, ew) ==
  FloatRound(Sign(sum),
             IF (sa.lost /\ Sign(a.n) # Sign(sum)) \/ (sb.lost /\ Sign(b.n) # Sign(sum))
               THEN Abs(sum) - 1 ELSE Abs(sum),
             sa.lost \/ sb.lost, ew)

FAddAt(a, b, ew) ==
  FAddIn(a, b, ScaleTo(a, ew), ScaleTo(b, ew),
         Sign(a.n) * ScaleTo(a, ew).v + Sign(b.n) * ScaleTo(b, ew).v, ew)

\* a + b in l_float32
FAdd(a, b) ==
  IF a.n = 0 THEN b
  ELSE IF b.n = 0 THEN a
  ELSE FAddAt(a, b, WorkingExponent(a, b))

\* a - b in l_float32
FSub(a, b) == FAdd(a, [n |-> -b.n, e |-> b.e])

\* a * k in l_float32, for an integer 0 <= k < 128
FMulInt(a, k) == FloatRound(Sign(a.n), Abs(a.n) * k, FALSE, a.e)

\* a / (l_float32)k in l_float32, for an integer 0 < k < 2^14: the long
\* division of the 24 bits a1 = |a| * 2^t of a by k, continued by x bits
\* to 26 bits of quotient
FDivLong(a, k, t, a1, x) ==
  FloatRound(Sign(a.n), (a1 \div k) * Pow2(x) + (((a1 % k) * Pow2(x)) \div k),
             ((a1 % k) * Pow2(x)) % k # 0, a.e + t + x)

FDivInt(a, k) ==
  IF a.n % k = 0 THEN Dyadic(a.n \div k, a.e)
  ELSE FDivLong(a, k, 24 - BitLen(Abs(a.n)), Abs(a.n) * Pow2(24 - BitLen(Abs(a.n))),
                26 - BitLen((Abs(a.n) * Pow2(24 - BitLen(Abs(a.n)))) \div k))

\* the cast (l_int32)f: truncation towards zero
FTrunc(a) == Sign(a.n) * ShiftRight(Abs(a.n), a.e)

\* (l_int32)(f + 0.5) for f >= 0: the sum is taken in double, where it is
\* exact
FRoundHalf(a) ==
  IF a.e = 0 THEN a.n
  ELSE ShiftRight(a.n, a.e) + (IF ShiftRight(a.n, a.e - 1) % 2 = 1 THEN 1 ELSE 0)

(***************************************************************************)
(* Bitmaps                                                                 *)
(***************************************************************************)
RECURSIVE SumOver(_, _)
SumOver(S, k) ==
  IF S = {} THEN 0
  ELSE LET p == CHOOSE q \in S : TRUE IN p[k] + SumOver(S \ {p}, k)

\* pixCountPixels(): the number of foreground pixels; 0 for no pix
pixCountPixels(pix) == Cardinality(pix.fg)

\* pixCentroid(): the mean position of the foreground pixels of a 1 bpp
\* pix, the sums of the coordinates divided by the number of pixels in
\* l_float32; (0, 0) when there are none
pixCentroid(pix) ==
  IF pix.fg = {} THEN [x |-> FZero, y |-> FZero]
  ELSE [x |-> FDivInt(FInt(SumOver(pix.fg, 1)), Cardinality(pix.fg)),
        y |-> FDivInt(FInt(SumOver(pix.fg, 2)), Cardinality(pix.fg))]

\* pixScaleToSize() on a 1 bpp pix: scaling by sampling; a target
\* dimension of 0 keeps the aspect ratio.  NULL when neither target is
\* positive, and when a dimension of the result rounds to 0: pixCreate()
\* makes no pix without width or height
pixScaleToSize(pixs, wd, hd) ==
  LET w  == pixs.w
      h  == pixs.h
      w2 == IF wd <= 0 THEN (2 * hd * w + h) \div (2 * h) ELSE wd
      h2 == IF hd <= 0 THEN (2 * wd * h + w) \div (2 * w) ELSE hd
      sx(x) == Min((2 * w * x + w2) \div (2 * w2), w - 1)
      sy(y) == Min((2 * h * y + h2) \div (2 * h2), h - 1)
  IN  IF pixs = NullPix \/ (wd <= 0 /\ hd <= 0) THEN NullPix
      ELSE IF w2 <= 0 \/ h2 <= 0 THEN NullPix
      ELSE [w |-> w2, h |-> h2,
            fg |-> {p \in (0..(w2 - 1)) \X (0..(h2 - 1)) : <<sx(p[1]), sy(p[2])>> \in pixs.fg}]

(***************************************************************************)
(* The recognizer                                                          *)
(***************************************************************************)
\* the types of character set
L_ARABIC_NUMERALS == 1
L_LC_ROMAN_NUMERALS == 2

\* recogCreate(): an empty recognizer in training mode, with maxarraysize
\* empty classes in the unscaled store.  pixaa_u is never NULL and is held
\* as the array itself; pixaa, ptaa_u, ptaa, naasum_u and naasum are
\* pointers, NULL until training is finished.  The averaging arrays are
\* held as arrays, empty where the program has NULL.  The stroke width
\* linew is 0 in every recognizer of the model.  The character set is that
\* of the digits and min_nopad is 1 until recogSetParams() says otherwise.
recogCreateSized(scalew, scaleh, maxarraysize) ==
  [scalew |-> scalew, scaleh |-> scaleh, maxarraysize |-> maxarraysize,
   charset_type |-> L_ARABIC_NUMERALS, charset_size |-> 10, min_nopad |-> 1,
   train_done |-> FALSE, ave_done |-> FALSE,
   setsize |-> 0, num_samples |-> 0,
   dna_tochar |-> <<>>, sa_text |-> <<>>,
   pixaa_u |-> InitFull(maxarraysize), pixaa |-> NULL,
   ptaa_u |-> NULL, ptaa |-> NULL, naasum_u |-> NULL, naasum |-> NULL,
   pixa_u |-> <<>>, pta_u |-> <<>>, nasum_u |-> <<>>,
   pixa |-> <<>>, pta |-> <<>>, nasum |-> <<>>]

\* recogCreate() with the array size of the model
recogCreate(scalew, scaleh) == recogCreateSized(scalew, scaleh, MaxArraySize)

\* recogGetClassIndex(): the index of the class with character value val;
\* when there is none, a new class is appended to dna_tochar and sa_text
\* and 1 is returned
recogGetClassIndex(rec, val, text) ==
  LET n == Len(rec.dna_tochar)
      found == {i \in 1..n : rec.dna_tochar[i] = val}
  IN  IF found # {}
        THEN [ret |-> 0, index |-> (CHOOSE i \in found : \A k \in found : i <= k) - 1,
              recog |-> rec]
        ELSE [ret |-> 1, index |-> n,
              recog |-> [rec EXCEPT !.dna_tochar = Append(@, val),
                                    !.sa_text = Append(@, text),
                                    !.setsize = @ + 1]]

\* recogProcessSingleLabeled(): pixd is what cropping, binarizing and
\* clipping to foreground leave of the image, NULL when nothing
recogProcessSingleLabeled(rec, pixs, text, pixd) ==
  LET textin == text # NoText
      textinpix == pixs.text # NoText
      textdata == IF textin THEN text ELSE pixs.text
  IN  IF ~textin /\ ~textinpix THEN [ret |-> 1, pixa |-> <<>>]
      ELSE IF pixd = NullPix THEN [ret |-> 1, pixa |-> <<>>]
      ELSE [ret |-> 0, pixa |-> <<Sample(textdata, pixd)>>]

\* boxaSort(boxa, L_SORT_BY_X, L_SORT_INCREASING)
RECURSIVE boxaSort(_)
boxaSort(boxa) ==
  IF boxa = <<>> THEN <<>>
  ELSE LET k == CHOOSE i \in DOMAIN boxa : \A j \in DOMAIN boxa : boxa[i].x <= boxa[j].x
           rest == [j \in 1..(Len(boxa) - 1) |-> IF j < k THEN boxa[j] ELSE boxa[j + 1]]
       IN  <<boxa[k]>> \o boxaSort(rest)

\* a faulty loop of recogProcessMultLabeled(): the characters are taken
\* from the end of the text
MultSamples_backwards(boxa4, textdata, ncomp) ==
  [i \in 1..ncomp |-> Sample(l_charToString(textdata[ncomp + 1 - i]), boxa4[i].pix)]

\* the samples saved by the loop of recogProcessMultLabeled()
MultSamples(boxa4, textdata, ncomp) ==
  [i \in 1..ncomp |-> Sample(l_charToString(textdata[i]), boxa4[i].pix)]

\* a faulty recogProcessMultLabeled(): the component count is not compared
\* with the number of characters
recogProcessMultLabeled_nocheck(rec, pixs, text, boxa3) ==
  LET textin == text # NoText
      textinpix == pixs.text # NoText
      textdata == IF textin THEN text ELSE pixs.text
  IN  IF ~textin /\ ~textinpix THEN [ret |-> 1, pixa |-> <<>>]
      ELSE [ret |-> 0,
            pixa |-> MultSamples(boxaSort(boxa3), textdata,
                                 Min(Len(boxa3), Len(textdata)))]

\* recogProcessMultLabeled(): boxa3 holds the components that closing,
\* connected components, merging and size selection find in the image,
\* each a box [x, pix] with the bitmap clipped by the box
recogProcessMultLabeled(rec, pixs, text, boxa3) ==
  LET textin == text # NoText
      textinpix == pixs.text # NoText
      textdata == IF textin THEN text ELSE pixs.text
      ncomp == Len(boxa3)
      nchars == Len(textdata)
  IN  IF ~textin /\ ~textinpix THEN [ret |-> 1, pixa |-> <<>>]
      ELSE IF ncomp # nchars THEN [ret |-> 1, pixa |-> <<>>]
      ELSE [ret |-> 0, pixa |-> MultSamples(boxaSort(boxa3), textdata, ncomp)]

\* a faulty pass of the loop of recogAddSamples(): a sample whose text
\* does not convert is not skipped
AddSamplesBody_noskip(rec, pixb, classindex) ==
  IF classindex < 0
    THEN LET text == pixGetText(pixb)
             conv == l_convertCharstrToInt(text)
             g    == recogGetClassIndex(rec, conv.val, text)
             npa  == pixaaGetCount(rec.pixaa_u)
             r1   == IF g.ret = 1 /\ g.index = npa
                       THEN [g.recog EXCEPT !.pixaa_u = pixaaAddPixa(@)]
                       ELSE g.recog
         IN  [r1 EXCEPT !.num_samples = @ + 1,
                        !.pixaa_u = pixaaAddPix(@, g.index, pixb)]
    ELSE [rec EXCEPT !.num_samples = @ + 1,
                     !.pixaa_u = pixaaAddPix(@, classindex, pixb)]

\* one pass of the loop of recogAddSamples()
AddSamplesBody(rec, pixb, classindex) ==
  IF classindex < 0
    THEN LET text == pixGetText(pixb)
             conv == l_convertCharstrToInt(text)
         IN  IF conv.ret = 1 THEN rec
             ELSE LET g   == recogGetClassIndex(rec, conv.val, text)
                      npa == pixaaGetCount(rec.pixaa_u)
                      r1  == IF g.ret = 1 /\ g.index = npa
                               THEN [g.recog EXCEPT !.pixaa_u = pixaaAddPixa(@)]
                               ELSE g.recog
                  IN  [r1 EXCEPT !.num_samples = @ + 1,
                                 !.pixaa_u = pixaaAddPix(@, g.index, pixb)]
    ELSE [rec EXCEPT !.num_samples = @ + 1,
                     !.pixaa_u = pixaaAddPix(@, classindex, pixb)]

\* a faulty loop of recogAddSamples(): it ends at the first sample whose
\* text is not converted
RECURSIVE AddSamplesLoop_abort(_, _, _)
AddSamplesLoop_abort(rec, pixa, classindex) ==
  IF pixa = <<>> THEN rec
  ELSE IF classindex < 0 /\ l_convertCharstrToInt(pixGetText(Head(pixa))).ret = 1 THEN rec
  ELSE AddSamplesLoop_abort(AddSamplesBody(rec, Head(pixa), classindex), Tail(pixa), classindex)

\* the loop of recogAddSamples()
RECURSIVE AddSamplesLoop(_, _, _)
AddSamplesLoop(rec, pixa, classindex) ==
  IF pixa = <<>> THEN rec
  ELSE AddSamplesLoop(AddSamplesBody(rec, Head(pixa), classindex), Tail(pixa), classindex)

\* a faulty recogAddSamples(): train_done is not looked at
recogAddSamples_nodone(rec, pixa, classindex) ==
  [recog |-> AddSamplesLoop(rec, pixa, classindex), ret |-> 0]

\* recogAddSamples(); the pixa is never NULL in the model
recogAddSamples(rec, pixa, classindex) ==
  IF rec.train_done THEN [recog |-> rec, ret |-> 1]
  ELSE [recog |-> AddSamplesLoop(rec, pixa, classindex), ret |-> 0]

\* recogTrainLabeled(): ext is the outcome of the image operations, pixd
\* for a single character and boxa3 for several
recogTrainLabeled(rec, pixs, text, multflag, ext) ==
  LET p == IF multflag = 0
             THEN recogProcessSingleLabeled(rec, pixs, text, ext)
             ELSE recogProcessMultLabeled(rec, pixs, text, ext)
  IN  IF p.ret # 0 THEN [recog |-> rec, ret |-> 1]
      ELSE [recog |-> recogAddSamples(rec, p.pixa, -1).recog, ret |-> 0]

\* recogModifyTemplate(): the template scaled as the recognizer asks;
\* its pix is NULL when the scaling gives none
recogModifyTemplate(rec, pixs) ==
  IF (rec.scalew = 0 \/ rec.scalew = pixs.pix.w) /\ (rec.scaleh = 0 \/ rec.scaleh = pixs.pix.h)
    THEN pixs
    ELSE [pixs EXCEPT !.pix = pixScaleToSize(pixs.pix, rec.scalew, rec.scaleh)]

\* the inner loop of recogTrainingFinished(): the samples of class i from
\* the j-th on.  pixaaAddPix() adds no NULL pix, while the centroid (0, 0)
\* and the area 0 that pixCentroid() and pixCountPixels() give for a NULL
\* pix are added
RECURSIVE FinishClass(_, _, _, _, _)
FinishClass(rec, pixa, i, j, modifyflag) ==
  IF j > pixaGetCount(pixa) THEN rec
  ELSE LET pix  == Deref(pixa)[j]
           pixd == IF modifyflag = 1 THEN recogModifyTemplate(rec, pix) ELSE pix
           r1   == [rec EXCEPT
                      !.ptaa_u = Ptr(pixaaAddPix(Deref(@), i, pixCentroid(pix.pix))),
                      !.naasum_u = Ptr(pixaaAddPix(Deref(@), i, pixCountPixels(pix.pix))),
                      !.pixaa = IF pixd.pix = NullPix THEN @
                                ELSE Ptr(pixaaAddPix(Deref(@), i, pixd)),
                      !.ptaa = Ptr(pixaaAddPix(Deref(@), i, pixCentroid(pixd.pix))),
                      !.naasum = Ptr(pixaaAddPix(Deref(@), i, pixCountPixels(pixd.pix)))]
       IN  FinishClass(r1, pixa, i, j + 1, modifyflag)

\* the outer loop of recogTrainingFinished(): the classes from i on
RECURSIVE FinishClasses(_, _, _)
FinishClasses(rec, i, modifyflag) ==
  IF i >= rec.setsize THEN rec
  ELSE FinishClasses(FinishClass(rec, pixaaGetPixa(Ptr(rec.pixaa_u), i), i, 1, modifyflag),
                     i + 1, modifyflag)

\* recogTrainingFinished()
recogTrainingFinished(rec, modifyflag) ==
  IF rec.train_done THEN rec
  ELSE LET r0 == [rec EXCEPT !.pixaa = Ptr(InitFull(rec.maxarraysize)),
                             !.ptaa_u = Ptr(InitFull(rec.maxarraysize)),
                             !.ptaa = Ptr(InitFull(rec.maxarraysize)),
                             !.naasum_u = Ptr(InitFull(rec.maxarraysize)),
                             !.naasum = Ptr(InitFull(rec.maxarraysize))]
           r1 == FinishClasses(r0, 0, modifyflag)
       IN  [r1 EXCEPT !.pixaa_u = pixaaTruncate(@),
                      !.pixaa = Ptr(pixaaTruncate(Deref(@))),
                      !.ptaa_u = Ptr(pixaaTruncate(Deref(@))),
                      !.ptaa = Ptr(pixaaTruncate(Deref(@))),
                      !.naasum_u = Ptr(pixaaTruncate(Deref(@))),
                      !.naasum = Ptr(pixaaTruncate(Deref(@))),
                      !.train_done = TRUE]

(***************************************************************************)
(* Average templates                                                       *)
(***************************************************************************)
\* ptaGetPt(): (0, 0) when there is no pta or no such point
ptaGetPt(ptap, i) ==
  IF ptap = NULL THEN [x |-> FZero, y |-> FZero]
  ELSE IF i < 0 \/ i >= Len(Deref(ptap)) THEN [x |-> FZero, y |-> FZero]
  ELSE Deref(ptap)[i + 1]

\* the coordinate coord (1 for x, 2 for y) of the point i of the pta
PtCoord(pta, i, coord) ==
  IF coord = 1 THEN ptaGetPt(pta, i).x ELSE ptaGetPt(pta, i).y

\* the passes i .. n - 1 of the loop that sums the centroids: each adds a
\* coordinate to the sum acc, in l_float32 and in the order of the points
RECURSIVE SumPtsRun(_, _, _, _, _)
SumPtsRun(pta, i, n, coord, acc) ==
  IF i >= n THEN acc
  ELSE SumPtsRun(pta, i + 1, n, coord, FAdd(acc, PtCoord(pta, i, coord)))

\* the same passes, taken in runs of 16 whose sums are computed before
\* the next run is entered, which keeps the evaluation shallow for the
\* 256 points of a full class
RECURSIVE SumPtsFrom(_, _, _, _, _)
SumPtsFrom(pta, i, n, coord, acc) ==
  IF i >= n THEN acc
  ELSE LET run == SumPtsRun(pta, i, Min(n, i + 16), coord, acc)
       IN  IF run.e >= 0 THEN SumPtsFrom(pta, i + 16, n, coord, run) ELSE run

\* the sum of the coordinate coord of the points 0 .. n - 1 of the pta
SumPts(pta, n, coord) == SumPtsFrom(pta, 0, n, coord, FZero)

\* pixaSizeRange(): the largest width and height in the pixa
pixaSizeRange(pixa) ==
  [maxw |-> CHOOSE m \in {pixa[k].pix.w : k \in DOMAIN pixa} :
                     \A k \in DOMAIN pixa : pixa[k].pix.w <= m,
   maxh |-> CHOOSE m \in {pixa[k].pix.h : k \in DOMAIN pixa} :
                     \A k \in DOMAIN pixa : pixa[k].pix.h <= m]

\* pixRasterop(pix1, xdiff, ydiff, maxw, maxh, PIX_SRC, pix2, 0, 0) on a
\* cleared pix1: pix2 moved by (xdiff, ydiff) and clipped to pix1
pixRasterop(maxw, maxh, xdiff, ydiff, pix2) ==
  {q \in {<<p[1] + xdiff, p[2] + ydiff>> : p \in pix2.fg} :
      q[1] \in 0..(maxw - 1) /\ q[2] \in 0..(maxh - 1)}

\* pixaAccumulateSamples(): the 8 bpp sum of the first 256 samples of the
\* pixa, each moved by the difference of its centroid and the average
\* centroid; pixap and pta are pointers, pta to the centroids or NULL
pixaAccumulateSamples(pixap, pta) ==
  LET n0 == pixaGetCount(pixap)
      n  == Min(n0, AveLimit)
      fail == [ret |-> 1, pixd |-> NullPix8, x |-> FZero, y |-> FZero]
  IN  IF pixap = NULL THEN fail
      ELSE IF pta # NULL /\ pixaGetCount(pta) # n0 THEN fail
      ELSE IF n = 0 THEN fail
      ELSE
        LET pixa == Deref(pixap)
            ptac == IF pta # NULL THEN pta
                    ELSE Ptr([k \in 1..n |-> pixCentroid(pixa[k].pix)])
            xave == FDivInt(SumPts(pta, n, 1), n)
            yave == FDivInt(SumPts(pta, n, 2), n)
            sz   == pixaSizeRange(pixa)
            moved(k) == pixRasterop(sz.maxw, sz.maxh,
                                    FTrunc(FSub(ptaGetPt(ptac, k - 1).x, xave)),
                                    FTrunc(FSub(ptaGetPt(ptac, k - 1).y, yave)),
                                    pixa[k].pix)
        IN  [ret |-> 0,
             pixd |-> [w |-> sz.maxw, h |-> sz.maxh,
                       val |-> [p \in (0..(sz.maxw - 1)) \X (0..(sz.maxh - 1)) |->
                                  Min(255, Cardinality({k \in 1..n : p \in moved(k)}))]],
             x |-> xave, y |-> yave]

\* pixThresholdToBinary() followed by pixInvert(): foreground where the
\* 8 bpp value is at least thresh; NULL for no pix
ThresholdAndInvert(pix1, thresh) ==
  IF pix1 = NullPix8 THEN NullPix
  ELSE [w |-> pix1.w, h |-> pix1.h,
        fg |-> {p \in DOMAIN pix1.val : ~(pix1.val[p] < thresh)}]

\* the average template of a class of nsamp > 0 samples, from the sum acc
\* given by pixaAccumulateSamples(): the sum is thresholded at half the
\* number of samples
AverageOfSum(acc, nsamp) ==
  LET ns2  == IF nsamp = 1 THEN 2 ELSE nsamp
      pix2 == ThresholdAndInvert(acc.pixd, ns2 \div 2)
  IN  [pix |-> pix2, pt |-> [x |-> acc.x, y |-> acc.y],
       area |-> pixCountPixels(pix2)]

\* one pass of a loop of recogAverageSamples(): the average of one class;
\* pixat and ptat are pointers
AverageClass(pixat, ptat) ==
  LET nsamp == Min(pixaGetCount(pixat), AveLimit)
  IN  IF nsamp = 0
        THEN [pix |-> [w |-> 1, h |-> 1, fg |-> {}],
              pt |-> [x |-> FZero, y |-> FZero], area |-> 0]
        ELSE AverageOfSum(pixaAccumulateSamples(pixat, ptat), nsamp)

\* the end of one pass of a loop of recogAverageSamples(): the average a
\* of a class is added to the arrays; pixaAddPix() adds nothing when the
\* pix is NULL
AddAverage(prev, a) ==
  [pixa |-> IF a.pix = NullPix THEN prev.pixa ELSE Append(prev.pixa, a.pix),
   pta |-> Append(prev.pta, a.pt),
   nasum |-> Append(prev.nasum, a.area)]

\* the arrays filled by a loop of recogAverageSamples() over size classes,
\* paa and ptaa being pointers
RECURSIVE AverageLoop(_, _, _)
AverageLoop(paa, ptaa, size) ==
  IF size = 0 THEN [pixa |-> <<>>, pta |-> <<>>, nasum |-> <<>>]
  ELSE AddAverage(AverageLoop(paa, ptaa, size - 1),
                  AverageClass(pixaaGetPixa(paa, size - 1),
                               pixaaGetPixa(ptaa, size - 1)))

\* the averaging data computed by recogAverageSamples() from the samples
\* held now
ComputedAverages(rec) ==
  [u |-> AverageLoop(Ptr(rec.pixaa_u), rec.ptaa_u, rec.setsize),
   m |-> AverageLoop(rec.pixaa, rec.ptaa, rec.setsize)]

\* the averaging data held by the recognizer
CachedAverages(rec) ==
  [u |-> [pixa |-> rec.pixa_u, pta |-> rec.pta_u, nasum |-> rec.nasum_u],
   m |-> [pixa |-> rec.pixa, pta |-> rec.pta, nasum |-> rec.nasum]]

\* the averaging data c stored in the recognizer by recogAverageSamples(),
\* after the previous averaging data was destroyed
SetAverages(rec, c) ==
  [rec EXCEPT !.pixa_u = c.u.pixa, !.pta_u = c.u.pta, !.nasum_u = c.u.nasum,
              !.pixa = c.m.pixa, !.pta = c.m.pta, !.nasum = c.m.nasum,
              !.ave_done = TRUE]

\* a faulty recogAverageSamples(): ave_done is not looked at, the averages
\* are computed again on every call
recogAverageSamples_redo(rec) ==
  SetAverages(rec, ComputedAverages(rec))

\* recogAverageSamples(); the size ranges and splitting dimensions that it
\* also derives from the averages are left out
recogAverageSamples(rec) ==
  IF rec.ave_done THEN rec ELSE SetAverages(rec, ComputedAverages(rec))

(***************************************************************************)
(* Training one recognizer: the calls a client makes, in any order        *)
(***************************************************************************)
\* the target heights the recognizer may be created with
ScaleHeights == {0, 2}

PixTexts == {NoText, Txt2}
Texts == {NoText, Txt1, Txt12, TxtLong}

\* the components a segmentation may find: at different x, merged when
\* they overlap
CompBoxes == {[x |-> 4 * k, pix |-> IF k % 2 = 1 THEN ImgB ELSE ImgA] : k \in 1..MaxComp}
Boxas == {b \in SeqsUpTo(CompBoxes, MaxComp) : \A i, j \in DOMAIN b : i # j => b[i] # b[j]}

\* the samples a client may hand to recogAddSamples()
SampleKinds == {Sample(Txt1, ImgA), Sample(Txt2, ImgB),
                Sample(NoText, ImgA), Sample(TxtLong, ImgB)}
Pixas == SeqsUpTo(SampleKinds, MaxBatch)
\* the class index given to recogAddSamples(): none, that of the last array
\* of pixaa_u, and the first one past it
ClassIndexes == {-1, MaxArraySize - 1, MaxArraySize}

Idle == [pc |-> "idle"]

Init ==
  /\ \E scaleh \in ScaleHeights : recog = recogCreate(0, scaleh)
  /\ call = [op |-> "recogCreate"]
  /\ ret = 0
  /\ ostate = Idle

\* what is left of the image of a single character: a bitmap, nothing, or,
\* in one call on a recognizer that scales, a bitmap that cannot be scaled
SingleImages(rec, pixtext, text) ==
  Images \cup {NullPix}
    \cup (IF rec.scaleh # 0 /\ pixtext = NoText /\ text = Txt1 THEN {ImgT} ELSE {})

TrainLabeled ==
  \E pixtext \in PixTexts, text \in Texts, multflag \in {0, 1} :
    \E ext \in IF multflag = 0 THEN SingleImages(recog, pixtext, text) ELSE Boxas :
      LET r == recogTrainLabeled(recog, [text |-> pixtext], text, multflag, ext)
      IN  /\ recog.num_samples + (IF multflag = 0 THEN 1 ELSE Len(ext)) <= MaxSamples
          /\ recog' = r.recog
          /\ ret' = r.ret
          /\ call' = [op |-> "recogTrainLabeled", pixtext |-> pixtext, text |-> text,
                      multflag |-> multflag, ext |-> ext]
          /\ UNCHANGED ostate

AddSamplesWith(indexes) ==
  \E pixa \in Pixas, classindex \in indexes :
    LET r == recogAddSamples(recog, pixa, classindex)
    IN  /\ recog.num_samples + Len(pixa) <= MaxSamples
        /\ recog' = r.recog
        /\ ret' = r.ret
        /\ call' = [op |-> "recogAddSamples", pixa |-> pixa, classindex |-> classindex]
        /\ UNCHANGED ostate

\* recogAddSamples() with any class index
AddSamples == AddSamplesWith(ClassIndexes)

\* recogAddSamples() without a forced class index
AddSamplesByLabel == AddSamplesWith({-1})

TrainingFinished ==
  \E modifyflag \in {0, 1} :
    /\ recog' = recogTrainingFinished(recog, modifyflag)
    /\ ret' = 0
    /\ call' = [op |-> "recogTrainingFinished", modifyflag |-> modifyflag]
    /\ UNCHANGED ostate

\* the call records the value of ave_done that it finds
AverageSamples ==
  /\ recog' = recogAverageSamples(recog)
  /\ ret' = 0
  /\ call' = [op |-> "recogAverageSamples", done |-> recog.ave_done]
  /\ UNCHANGED ostate

Next == TrainLabeled \/ AddSamples \/ TrainingFinished \/ AverageSamples

Spec == Init /\ [][Next]_vars

\* training in which no class index is ever forced
NextByLabel == TrainLabeled \/ AddSamplesByLabel \/ TrainingFinished \/ AverageSamples

SpecByLabel == Init /\ [][NextByLabel]_vars

(***************************************************************************)
(* Removing outliers                                                       *)
(***************************************************************************)
\* pixClipToForeground(): the pix cropped to the bounding box of its
\* foreground; NULL when it has none
pixClipToForeground(pix) ==
  IF pix.fg = {} THEN NullPix
  ELSE LET xs == {p[1] : p \in pix.fg}
           ys == {p[2] : p \in pix.fg}
           x0 == CHOOSE x \in xs : \A z \in xs : x <= z
           x1 == CHOOSE x \in xs : \A z \in xs : x >= z
           y0 == CHOOSE y \in ys : \A z \in ys : y <= z
           y1 == CHOOSE y \in ys : \A z \in ys : y >= z
       IN  [w |-> x1 - x0 + 1, h |-> y1 - y0 + 1,
            fg |-> {<<p[1] - x0, p[2] - y0>> : p \in pix.fg}]

\* the loop of recogCreateFromPixa(): each pix that has text is trained
\* as a single character
RECURSIVE CreateFromPixaLoop(_, _)
CreateFromPixaLoop(rec, pixa) ==
  IF pixa = <<>> THEN rec
  ELSE LET pix == Head(pixa)
           r1  == IF pix.text = NoText THEN rec
                  ELSE recogTrainLabeled(rec, pix, pix.text, 0,
                                         pixClipToForeground(pix.pix)).recog
       IN  CreateFromPixaLoop(r1, Tail(pixa))

\* recogCreateFromPixa(): a pointer to a recognizer trained on the pixa
\* and finished; NULL when no pix of the pixa has text
recogCreateFromPixa(pixa, scalew, scaleh) ==
  IF \A k \in DOMAIN pixa : pixa[k].text = NoText THEN NULL
  ELSE Ptr(recogTrainingFinished(CreateFromPixaLoop(recogCreate(scalew, scaleh), pixa), 1))

RECURSIVE SortIncreasing(_)
SortIncreasing(na) ==
  IF na = <<>> THEN <<>>
  ELSE LET k == CHOOSE i \in DOMAIN na : \A j \in DOMAIN na : na[i] <= na[j]
           rest == [j \in 1..(Len(na) - 1) |-> IF j < k THEN na[j] ELSE na[j + 1]]
       IN  <<na[k]>> \o SortIncreasing(rest)

\* numaGetRankValue(na, fract, NULL, 0, &val): the value at the index
\* (l_int32)(fract * (l_float32)(n - 1) + 0.5) of the sorted numbers; the
\* product is taken in l_float32; 0 for an empty array
numaGetRankValue(na, fract) ==
  IF na = <<>> THEN 0
  ELSE SortIncreasing(na)[FRoundHalf(FMulInt(fract, Len(na) - 1)) + 1]

\* the l_float32 that stands for a parameter given in hundredths
FHundredths(k) == FDivInt(FInt(k), 100)

\* the argument 1.0 - minfract of numaGetRankValue(): the difference is
\* taken in double, where it is exact, and passed as an l_float32
RankFract(minfract) == FSub(FInt(1), FHundredths(minfract))

\* numaGetMax(): the largest number; for an empty array the value that
\* the search starts with, which is below every score
numaGetMax(na) ==
  IF na = <<>> THEN -1000000000
  ELSE CHOOSE m \in Range(na) : \A v \in Range(na) : v <= m

\* pixaGetPix(pixa, index, L_CLONE) on an array of pix: NULL when the
\* index names no pix
pixaGetPix(pixa, index) ==
  IF index < 0 \/ index >= Len(pixa) THEN NullPix ELSE pixa[index + 1]

\* pixCorrelationScoreSimple(pix1, pix2, area1, area2, ...): the score is
\* 0 when a pix is missing or an area is 0; otherwise it is corr[pix2],
\* corr giving for every scaled template the correlation with the average
\* template it is compared with
pixCorrelationScoreSimple(corr, pix1, pix2, area1, area2) ==
  IF pix1 = NullPix \/ pix2.pix = NullPix \/ area1 = 0 \/ area2 = 0 THEN 0
  ELSE corr[pix2]

\* the scores of class i: the first loop over j of recogRemoveOutliers().
\* The average pix1 and its area area1 are those at index i of
\* recog->pixa and recog->nasum, the template pix2 is the j-th of the
\* scaled templates of the class and area2 the j-th of its areas; n is
\* the number of scaled templates
ClassScores(rec, corr, i) ==
  LET pix1  == pixaGetPix(rec.pixa, i)
      area1 == numaGetIValue(rec.nasum, i)
      pixa  == pixaaGetPixa(rec.pixaa, i)
      nasum == pixaaGetPixa(rec.naasum, i)
      n     == pixaGetCount(pixa)
  IN  [j \in 1..n |->
         pixCorrelationScoreSimple(corr, pix1, Deref(pixa)[j], area1,
                                   IF nasum = NULL THEN 0
                                   ELSE numaGetIValue(Deref(nasum), j - 1))]

\* a faulty threshold: minscore is left out
ThreshScore_nominscore(nascore, minscore, minfract) ==
  Min(numaGetMax(nascore), numaGetRankValue(nascore, RankFract(minfract)))

\* the threshold that recogRemoveOutliers() computes for a class
ThreshScore(nascore, minscore, minfract) ==
  Min(numaGetMax(nascore), Min(minscore, numaGetRankValue(nascore, RankFract(minfract))))

\* the loop of recogRemoveOutliers() that saves the templates of a class
\* that are at or above the threshold, from the j-th on
RECURSIVE SaveTemplates(_, _, _, _, _, _)
SaveTemplates(o, pixa_u, nascore, threshscore, j, n) ==
  IF j > n THEN o
  ELSE LET score == nascore[j]
           pix1  == pixa_u[j]
           o1 == IF score >= threshscore
                   THEN [o EXCEPT !.pixad = Append(@, pix1)]
                 ELSE IF o.debug = 1
                   THEN [o EXCEPT !.pixarem = Append(@, pix1), !.narem = Append(@, score)]
                 ELSE o
       IN  SaveTemplates(o1, pixa_u, nascore, threshscore, j + 1, n)

\* a faulty start of recogRemoveOutliers(): the parameters are used as
\* they are given
OutliersSetup_asgiven(args) ==
  LET rp == recogCreateFromPixa(args.pixas, 0, OutlierScaleH)
  IN  [pc |-> IF rp = NULL THEN "crash" ELSE "loop",
       args |-> args, minscore |-> args.minscore, minfract |-> args.minfract,
       debug |-> args.debug,
       recog |-> IF rp = NULL THEN rp ELSE Ptr(recogAverageSamples(Deref(rp))),
       i |-> 0, pixad |-> <<>>, pixarem |-> <<>>, narem |-> <<>>]

\* the start of recogRemoveOutliers(): the parameters are brought into
\* range and the scaled recognizer with its averages is made.  Without a
\* recognizer the loop reads through a NULL pointer and the run crashes.
OutliersSetup(args) ==
  LET ms1 == Min(args.minscore, 100)
      ms  == IF ms1 <= 0 THEN DEFAULT_MIN_SCORE ELSE ms1
      mf1 == Min(args.minfract, 100)
      mf  == IF mf1 <= 0 THEN DEFAULT_MIN_FRACTION ELSE mf1
      rp  == recogCreateFromPixa(args.pixas, 0, OutlierScaleH)
  IN  [pc |-> IF rp = NULL THEN "crash" ELSE "loop",
       args |-> args, minscore |-> ms, minfract |-> mf, debug |-> args.debug,
       recog |-> IF rp = NULL THEN rp ELSE Ptr(recogAverageSamples(Deref(rp))),
       i |-> 0, pixad |-> <<>>, pixarem |-> <<>>, narem |-> <<>>]

\* one pass of the loop of recogRemoveOutliers() over the classes: the
\* scores of the n scaled templates of the class, the threshold, and the
\* saving loop, which takes the j-th unscaled template for the j-th score
OutliersClass(o) ==
  LET rec == Deref(o.recog)
      nascore == ClassScores(rec, o.args.corr, o.i)
      threshscore == ThreshScore(nascore, o.minscore, o.minfract)
      o1 == SaveTemplates(o, rec.pixaa_u[o.i + 1], nascore, threshscore, 1, Len(nascore))
  IN  [o1 EXCEPT !.i = @ + 1]

\* the templates given to recogRemoveOutliers(): labeled bitmaps that are
\* already clipped to their foreground
ImgC == [w |-> 1, h |-> 1, fg |-> {<<0, 0>>}]
ImgD == [w |-> 2, h |-> 1, fg |-> {<<0, 0>>, <<1, 0>>}]
ImgE == [w |-> 2, h |-> 2, fg |-> {<<0, 0>>, <<1, 1>>}]
OutlierKinds == {Sample(Txt1, ImgC), Sample(Txt1, ImgE), Sample(Txt2, ImgD)}

\* a template so narrow that its width rounds to 0 when it is scaled to
\* the height of the special recognizer
Unscalable == Sample(Txt1, ImgT)

\* the arrays of templates that are tried: any templates that scale, and
\* shorter arrays with the narrow template at one place
OutlierPixas ==
  {pixas \in SeqsUpTo(OutlierKinds \cup {Unscalable}, MaxOutlierSamples) :
     \/ \A k \in DOMAIN pixas : pixas[k] # Unscalable
     \/ /\ Cardinality({k \in DOMAIN pixas : pixas[k] = Unscalable}) = 1
        /\ Len(pixas) < MaxOutlierSamples}

\* the scaled templates that the special recognizer of
\* recogRemoveOutliers() holds for the array pixas
ScaledTemplates(pixas) ==
  LET rp == recogCreateFromPixa(pixas, 0, OutlierScaleH)
  IN  IF rp = NULL THEN {}
      ELSE UNION {Range(Deref(Deref(rp).pixaa)[i]) : i \in DOMAIN Deref(Deref(rp).pixaa)}

\* the scaled template of the template s in that recognizer
ScaledTemplate(s) == recogModifyTemplate(recogCreate(0, OutlierScaleH), s)

\* scores and parameters in hundredths
ScoreValues == {20, 50, 80}
MinScores == {-10, 60, 120}
MinFracts == {0, 70, 120}

InitOutliers ==
  /\ recog = recogCreate(0, 0)
  /\ call = [op |-> "recogRemoveOutliers"]
  /\ ret = 0
  /\ \E pixas \in OutlierPixas :
       \E corr \in [ScaledTemplates(pixas) -> ScoreValues], minscore \in MinScores,
          minfract \in MinFracts, debug \in {0, 1} :
         ostate = [pc |-> "start",
                   args |-> [pixas |-> pixas, corr |-> corr, minscore |-> minscore,
                             minfract |-> minfract, debug |-> debug]]

OutliersBegin ==
  /\ ostate.pc = "start"
  /\ ostate' = OutliersSetup(ostate.args)
  /\ UNCHANGED <<recog, call, ret>>

OutliersStep ==
  /\ ostate.pc = "loop"
  /\ ostate.i < Deref(ostate.recog).setsize
  /\ ostate' = OutliersClass(ostate)
  /\ UNCHANGED <<recog, call, ret>>

OutliersEnd ==
  /\ ostate.pc = "loop"
  /\ ostate.i >= Deref(ostate.recog).setsize
  /\ ostate' = [ostate EXCEPT !.pc = "done"]
  /\ UNCHANGED <<recog, call, ret>>

NextOutliers == OutliersBegin \/ OutliersStep \/ OutliersEnd

SpecOutliers == InitOutliers /\ [][NextOutliers]_vars

\* A class of ten templates for recogRemoveOutliers(): one template that
\* scores 0.10 at any place, and nine that score 0.80 or more, the first
\* nhigh1 of them of one kind and the others of another kind
ScenarioSize == 10
LowSample == Sample(Txt1, ImgC)
HighSample1 == Sample(Txt1, ImgE)
HighSample2 == Sample(Txt1, ImgD)
HighScores == {80, 90, 100}

ScenarioPixas(low, nhigh1) ==
  [k \in 1..ScenarioSize |->
     IF k = low THEN LowSample
     ELSE IF (IF k < low THEN k ELSE k - 1) <= nhigh1 THEN HighSample1
     ELSE HighSample2]

InitScenario ==
  /\ recog = recogCreate(0, 0)
  /\ call = [op |-> "recogRemoveOutliers"]
  /\ ret = 0
  /\ \E low \in 1..ScenarioSize, nhigh1 \in 0..(ScenarioSize - 1),
        s1 \in HighScores, s2 \in HighScores, debug \in {0, 1} :
       LET pixas == ScenarioPixas(low, nhigh1)
       IN  ostate = [pc |-> "start",
                     args |-> [pixas |-> pixas,
                               corr |-> [t \in ScaledTemplates(pixas) |->
                                           IF t = ScaledTemplate(LowSample) THEN 10
                                           ELSE IF t = ScaledTemplate(HighSample1) THEN s1
                                           ELSE s2],
                               minscore |-> 75, minfract |-> 50, debug |-> debug]]

SpecScenario == InitScenario /\ [][NextOutliers]_vars

(***************************************************************************)
(* Training on unlabeled data: recogTrainFromBoot()                       *)
(***************************************************************************)
\* the largest number of unlabeled samples given to recogTrainFromBoot()
MaxBootSamples == 2
\* the height that the boot recognizer scales to
BootScaleH == 2

\* recogIdentifyPix(recogboot, pix1, ...): the identification of the boot
\* recognizer leaves its result, a score in hundredths and the text of the
\* best class, in recogboot->rch; ident gives the result for each bitmap
recogIdentifyPix(ident, pix1) == Ptr(ident[pix1])

\* rchExtract(rch, NULL, &score, &text, ...); score 0 and no text when
\* there is no rch
rchExtract(rch) ==
  IF rch = NULL THEN [score |-> 0, text |-> NoText] ELSE Deref(rch)

\* the start of recogTrainFromBoot(): the 1 bpp samples are copied and
\* scaled to the height of the boot recognizer, which has no stroke width;
\* a pix that cannot be scaled is not added to pixa2.  With no sample the
\* function returns NULL.
BootSetup(args) ==
  LET n == Len(args.pixas)
      pixa1 == args.pixas
      pix2(k) == pixScaleToSize(pixa1[k].pix, 0, BootScaleH)
      pixa2 == SelectSeq([k \in 1..n |-> pix2(k)], LAMBDA q : q # NullPix)
  IN  [pc |-> IF n = 0 THEN "booterror" ELSE "identify",
       args |-> args, pixa3 |-> pixa2, i |-> 0, pixad |-> <<>>,
       rch |-> NULL, ndb |-> 0]

\* the values that the unassigned pixdb can hold: NULL, the address of a
\* pix that is still alive (left by an earlier call), or anything else
StalePixdbs == {NULL, Ptr("pix"), Ptr("wild")}

\* one pass of the identification loop of recogTrainFromBoot().  Without
\* debug, pixdb is never assigned and is read when the sample is accepted:
\* pixdb is then the value that happens to be there.  A NULL is refused by
\* pixaAddPix(); a pix that is still alive is copied and the copy added;
\* copying through any other value ends the run.  ndb counts the pix
\* added to the debug pixa of the boot recognizer.
BootIdentify(o, pixdb) ==
  LET ex == rchExtract(recogIdentifyPix(o.args.ident, o.pixa3[o.i + 1]))
      accepted == ex.score >= o.args.minscore
      wild == accepted /\ o.args.debug = 0 /\ pixdb = Ptr("wild")
      copied == accepted /\ (o.args.debug = 1 \/ pixdb = Ptr("pix"))
  IN  [o EXCEPT !.pc = IF wild THEN "bootcrash" ELSE @,
                !.rch = Ptr(ex),
                !.pixad = IF accepted
                            THEN Append(@, Sample(ex.text, o.args.pixas[o.i + 1].pix))
                            ELSE @,
                !.ndb = @ + (IF o.args.debug = 1 THEN 1 ELSE 0)
                          + (IF copied THEN 1 ELSE 0),
                !.i = IF wild THEN @ ELSE @ + 1]

\* the unlabeled samples, some of which come with a label
BootKinds == {Sample(NoText, ImgA), Sample(Txt1, ImgB), Sample(Txt2, ImgA),
              Sample(NoText, ImgT)}
\* what the boot recognizer can say of a scaled bitmap
BootResults == {[score |-> 20, text |-> Txt1], [score |-> 50, text |-> Txt1],
                [score |-> 80, text |-> Txt2]}
BootMinScores == {50, 80}
ScaledImages == {pixScaleToSize(img, 0, BootScaleH) : img \in Images}

InitBoot ==
  /\ recog = recogCreate(0, BootScaleH)
  /\ call = [op |-> "recogTrainFromBoot"]
  /\ ret = 0
  /\ \E pixas \in SeqsUpTo(BootKinds, MaxBootSamples),
        ident \in [ScaledImages -> BootResults],
        minscore \in BootMinScores, debug \in {0, 1} :
       ostate = [pc |-> "boot",
                 args |-> [pixas |-> pixas, ident |-> ident,
                           minscore |-> minscore, debug |-> debug]]

\* the call begins; the local pixdb holds, for the whole call, the value
\* that happens to be in its place
BootBegin ==
  /\ ostate.pc = "boot"
  /\ \E pixdb \in StalePixdbs :
       ostate' = BootSetup(ostate.args) @@ [pixdb |-> pixdb]
  /\ UNCHANGED <<recog, call, ret>>

BootStep ==
  /\ ostate.pc = "identify"
  /\ ostate.i < Len(ostate.pixa3)
  /\ ostate' = BootIdentify(ostate, ostate.pixdb)
  /\ UNCHANGED <<recog, call, ret>>

BootEnd ==
  /\ ostate.pc = "identify"
  /\ ostate.i >= Len(ostate.pixa3)
  /\ ostate' = [ostate EXCEPT !.pc = "bootdone"]
  /\ UNCHANGED <<recog, call, ret>>

NextBoot == BootBegin \/ BootStep \/ BootEnd

SpecBoot == InitBoot /\ [][NextBoot]_vars

(***************************************************************************)
(* Padding the digit training set: recogPadDigitTrainingSet()             *)
(***************************************************************************)
\* the size of the arrays of classes of the recognizers that are padded
PadArraySize == 12

\* the label of the digit d, and a label that is not of a digit
DigitText(d) == <<48 + d>>
TxtA == <<97>>

\* recogSetParams(recog, type, min_nopad, ...): the character set, its
\* size (recogGetCharsetSize()) and the number of samples of a class below
\* which the class is padded
recogSetParams(rec, type, min_nopad) ==
  [rec EXCEPT !.charset_type = type,
              !.charset_size = IF type = L_ARABIC_NUMERALS THEN 10 ELSE 7,
              !.min_nopad = min_nopad]

\* numaGetMin(): the start value 1000000000 when the array is empty
numaGetMin(na) ==
  IF na = <<>> THEN 1000000000
  ELSE CHOOSE m \in Range(na) : \A v \in Range(na) : m <= v

\* numaSetValue(na, index, val): nothing when the index is out of range
numaSetValue(na, index, val) ==
  IF index < 0 \/ index >= Len(na) THEN na ELSE [na EXCEPT ![index + 1] = val]

\* the indicator array of recogAddMissingClassStrings() after the classes
\* up to the i-th are marked as present: the class with text is the digit
\* text[0] - '0'
RECURSIVE MarkClasses(_, _, _)
MarkClasses(na, sa_text, i) ==
  IF i = 0 THEN na
  ELSE numaSetValue(MarkClasses(na, sa_text, i - 1), sa_text[i][1] - 48, 0)

\* recogAddMissingClassStrings(): the strings of the digits that are
\* marked as missing, looked for at the indices below nclass
recogAddMissingClassStrings(rec) ==
  LET nclass == pixaaGetCount(rec.pixaa_u)
      na == MarkClasses([i \in 1..rec.charset_size |-> 1], rec.sa_text, nclass)
      missing == SelectSeq([i \in 1..nclass |-> i - 1],
                           LAMBDA i : numaGetIValue(na, i) = 1)
  IN  IF rec.charset_type # 1 \/ nclass = 10 THEN <<>>
      ELSE [k \in DOMAIN missing |-> DigitText(missing[k])]

\* a recogIsPaddingNeeded() that leaves out the classes with fewer than
\* min_nopad samples
recogIsPaddingNeeded_missingonly(rec) ==
  IF pixaaGetCount(rec.pixaa_u) = rec.charset_size
       /\ \A i \in DOMAIN rec.pixaa_u : Len(rec.pixaa_u[i]) >= rec.min_nopad
    THEN NULL
    ELSE Ptr(recogAddMissingClassStrings(rec))

\* recogIsPaddingNeeded(): NULL when every class of the character set is
\* there with min_nopad samples; otherwise a pointer to the strings of
\* the missing classes followed by those of the classes with fewer samples
recogIsPaddingNeeded(rec) ==
  LET nclass == pixaaGetCount(rec.pixaa_u)
      naclass == [i \in 1..nclass |-> Len(rec.pixaa_u[i])]
      under == SelectSeq([i \in 1..nclass |-> i],
                         LAMBDA i : naclass[i] < rec.min_nopad /\ i <= Len(rec.sa_text))
  IN  IF nclass = rec.charset_size /\ numaGetMin(naclass) >= rec.min_nopad
        THEN NULL
        ELSE Ptr(recogAddMissingClassStrings(rec)
                   \o [k \in DOMAIN under |-> rec.sa_text[under[k]]])

\* a recogCharsetAvailable() that has a generator for every character set
recogCharsetAvailable_any(type) == TRUE

\* recogCharsetAvailable()
recogCharsetAvailable(type) == type = L_ARABIC_NUMERALS

\* the bitmaps of the sets of digit templates that are compiled into the
\* library
BootImg1 == [w |-> 10, h |-> 2, fg |-> {<<0, 0>>, <<9, 1>>}]
BootImg2 == [w |-> 10, h |-> 2, fg |-> {<<0, 1>>, <<9, 0>>}]
BootImg3 == [w |-> 10, h |-> 2, fg |-> {<<0, 0>>, <<4, 1>>, <<9, 0>>}]

\* l_bootnum_gen1(), l_bootnum_gen2(), l_bootnum_gen3(): labeled
\* templates of digits; the first set has one of every digit
l_bootnum_gen1 == [k \in 1..10 |-> Sample(DigitText(k - 1), BootImg1)]
l_bootnum_gen2 == <<Sample(DigitText(0), BootImg2), Sample(DigitText(9), BootImg2)>>
l_bootnum_gen3 == <<Sample(DigitText(5), BootImg3)>>

\* pixaJoin(pixad, pixas, 0, -1): all of pixas is added to pixad
pixaJoin(pixad, pixas) == pixad \o pixas

\* the l_float32 of 0.9, 1.1 and 1.2: the scale factors that
\* recogMakeBootDigitTemplates() puts into its numa
BootScaleFactors ==
  <<[n |-> 7549747, e |-> 23], [n |-> 9227469, e |-> 23], [n |-> 5033165, e |-> 22]>>

\* pixScale(pixs, scalex, 1.0) on a 1 bpp pix: the width is
\* (l_int32)(scalex * w + 0.5) and the columns are sampled, the column x
\* of the result from the column (l_int32)(wratio * x + 0.5) of pixs,
\* at most w - 1, with wratio = (l_float32)w / (l_float32)wd and the
\* product in l_float32; NULL when the pix would have no width
pixScale(pixs, scalex) ==
  LET w  == pixs.w
      wd == FRoundHalf(FMulInt(scalex, w))
      wratio == FDivInt(FInt(w), wd)
      sx(x) == Min(FRoundHalf(FMulInt(wratio, x)), w - 1)
  IN  IF pixs = NullPix \/ wd <= 0 THEN NullPix
      ELSE [w |-> wd, h |-> pixs.h,
            fg |-> {p \in (0..(wd - 1)) \X (0..(pixs.h - 1)) : <<sx(p[1]), p[2]>> \in pixs.fg}]

\* pixaExtendByScaling(pixas, nasc, L_HORIZ, 1): each pix of pixas is
\* followed by its copies scaled in width by the factors of nasc, which
\* keep its text; a NULL copy is not added
RECURSIVE pixaExtendByScaling(_, _)
pixaExtendByScaling(pixas, nasc) ==
  IF pixas = <<>> THEN <<>>
  ELSE <<Head(pixas)>>
         \o SelectSeq([j \in DOMAIN nasc |->
                         Sample(Head(pixas).text, pixScale(Head(pixas).pix, nasc[j]))],
                      LAMBDA pix2 : pix2.pix # NullPix)
         \o pixaExtendByScaling(Tail(pixas), nasc)

\* recogMakeBootDigitTemplates(): the templates of the three sets, joined
\* and extended by horizontal scaling
recogMakeBootDigitTemplates ==
  pixaExtendByScaling(pixaJoin(pixaJoin(l_bootnum_gen1, l_bootnum_gen2), l_bootnum_gen3),
                      BootScaleFactors)

\* the number of boot templates with a text
BootTemplatesOf(text) ==
  Cardinality({k \in DOMAIN recogMakeBootDigitTemplates :
                 pixGetText(recogMakeBootDigitTemplates[k]) = text})

\* recogExtractPixa(): the unscaled templates of the first size classes,
\* class after class
RECURSIVE recogExtractPixa(_, _)
recogExtractPixa(rec, size) ==
  IF size = 0 THEN <<>>
  ELSE recogExtractPixa(rec, size - 1) \o rec.pixaa_u[size]

\* a recogAddDigitPadTemplates() that adds every boot template
recogAddDigitPadTemplates_all(rec, sa) ==
  IF ~recogCharsetAvailable(rec.charset_type) THEN NULL
  ELSE Ptr(recogExtractPixa(rec, pixaaGetCount(rec.pixaa_u)) \o recogMakeBootDigitTemplates)

\* recogAddDigitPadTemplates(): a pointer to the templates of the
\* recognizer followed by the boot templates whose text is in sa; NULL
\* when there is no generator for the character set
recogAddDigitPadTemplates(rec, sa) ==
  IF ~recogCharsetAvailable(rec.charset_type) THEN NULL
  ELSE Ptr(recogExtractPixa(rec, pixaaGetCount(rec.pixaa_u))
             \o SelectSeq(recogMakeBootDigitTemplates,
                          LAMBDA pix : \E j \in DOMAIN sa : pixGetText(pix) = sa[j]))

\* The steps of recogPadDigitTrainingSet(&recog, scaleh, linew).  recog is
\* the model recog1 that the caller gives.  ostate holds the caller's
\* reference precog, a pointer to the name of the model it refers to,
\* tells whether recog1 was destroyed, and holds sa, pixa and recog2.
PadDecide(o, rec) ==
  LET sa == recogIsPaddingNeeded(rec)
  IN  IF sa = NULL THEN [o EXCEPT !.pc = "padded", !.ret = 0]
      ELSE [o EXCEPT !.pc = "merge", !.sa = sa]

PadMerge(o, rec) ==
  LET pixa == recogAddDigitPadTemplates(rec, Deref(o.sa))
  IN  IF pixa = NULL THEN [o EXCEPT !.pc = "padded", !.ret = 1]
      ELSE [o EXCEPT !.pc = "create", !.pixa = pixa, !.k = 0,
                     !.build = recogCreateSized(0, o.scaleh, rec.maxarraysize)]

\* one pass of the loop of recogCreateFromPixa() on the pixa, as in
\* CreateFromPixaLoop
PadCreateStep(o) ==
  LET pix == Deref(o.pixa)[o.k + 1]
  IN  [o EXCEPT !.k = @ + 1,
                !.build = IF pix.text = NoText THEN @
                          ELSE recogTrainLabeled(@, pix, pix.text, 0,
                                                 pixClipToForeground(pix.pix)).recog]

\* the end of recogCreateFromPixa(): NULL when no pix has text
PadCreateEnd(o) ==
  [o EXCEPT !.pc = "replace",
            !.recog2 = IF \A j \in DOMAIN Deref(o.pixa) : Deref(o.pixa)[j].text = NoText
                         THEN NULL
                         ELSE Ptr(recogTrainingFinished(o.build, 1))]

\* recogDestroy(precog); *precog = recog2; return 0
PadReplace(o) ==
  [o EXCEPT !.pc = "padded", !.ret = 0, !.destroyed = TRUE,
            !.precog = IF o.recog2 = NULL THEN NULL ELSE Ptr("recog2")]

\* the models given to recogPadDigitTrainingSet(): trained on the digits
\* of a set and possibly on the letter a, in increasing or decreasing
\* order of the labels, with the same number of samples in every class but
\* the first one
DigitSets == {S \cup T : S \in SUBSET {0, 1, 9}, T \in {{}, 2..8}}
PadCounts == {1, 3}
PadFloors == {2, 5}
PadHeights == {0, 2}
CharsetTypes == {L_ARABIC_NUMERALS, L_LC_ROMAN_NUMERALS}

\* the labels of the classes in the order of training
RECURSIVE LabelsUp(_, _)
LabelsUp(digits, d) ==
  IF d > 9 THEN <<>>
  ELSE (IF d \in digits THEN <<DigitText(d)>> ELSE <<>>) \o LabelsUp(digits, d + 1)

Reverse(seq) == [k \in DOMAIN seq |-> seq[Len(seq) + 1 - k]]

\* the samples to train on: cnt0 of the first label and cnt of the others
PadSamples(labels, cnt0, cnt) ==
  LET total == IF labels = <<>> THEN 0 ELSE cnt0 + (Len(labels) - 1) * cnt
      class(k) == IF k <= cnt0 THEN 1 ELSE 2 + ((k - cnt0 - 1) \div cnt)
  IN  [k \in 1..total |-> Sample(labels[class(k)], ImgC)]

\* a client creates a recognizer and sets its character set and min_nopad
InitPad ==
  /\ \E type \in CharsetTypes, min_nopad \in PadFloors :
       recog = recogSetParams(recogCreateSized(0, 0, PadArraySize), type, min_nopad)
  /\ call = [op |-> "recogPadDigitTrainingSet"]
  /\ ret = 0
  /\ \E digits \in DigitSets, extra \in BOOLEAN, down \in BOOLEAN,
        cnt0 \in PadCounts, cnt \in PadCounts :
       LET up == LabelsUp(digits, 0) \o (IF extra THEN <<TxtA>> ELSE <<>>)
           labels == IF down THEN Reverse(up) ELSE up
       IN  ostate = [pc |-> "train", todo |-> PadSamples(labels, cnt0, cnt),
                     scaleh |-> 0, ret |-> 0,
                     precog |-> Ptr("recog1"), destroyed |-> FALSE,
                     sa |-> NULL, pixa |-> NULL, k |-> 0,
                     build |-> recogCreate(0, 0), recog2 |-> NULL]

\* the client trains on the next sample
PadTrain ==
  /\ ostate.pc = "train"
  /\ ostate.todo # <<>>
  /\ recog' = recogTrainLabeled(recog, Head(ostate.todo), Head(ostate.todo).text, 0,
                                pixClipToForeground(Head(ostate.todo).pix)).recog
  /\ ostate' = [ostate EXCEPT !.todo = Tail(@)]
  /\ UNCHANGED <<call, ret>>

\* the client finishes the training and calls recogPadDigitTrainingSet()
PadCall ==
  /\ ostate.pc = "train"
  /\ ostate.todo = <<>>
  /\ recog' = recogTrainingFinished(recog, 0)
  /\ \E scaleh \in PadHeights : ostate' = [ostate EXCEPT !.pc = "pad", !.scaleh = scaleh]
  /\ UNCHANGED <<call, ret>>

PadBegin ==
  /\ ostate.pc = "pad"
  /\ ostate' = PadDecide(ostate, recog)
  /\ UNCHANGED <<recog, call, ret>>

PadTemplates ==
  /\ ostate.pc = "merge"
  /\ ostate' = PadMerge(ostate, recog)
  /\ UNCHANGED <<recog, call, ret>>

PadRebuild ==
  /\ ostate.pc = "create"
  /\ ostate.k < Len(Deref(ostate.pixa))
  /\ ostate' = PadCreateStep(ostate)
  /\ UNCHANGED <<recog, call, ret>>

PadRebuilt ==
  /\ ostate.pc = "create"
  /\ ostate.k >= Len(Deref(ostate.pixa))
  /\ ostate' = PadCreateEnd(ostate)
  /\ UNCHANGED <<recog, call, ret>>

PadEnd ==
  /\ ostate.pc = "replace"
  /\ ostate' = PadReplace(ostate)
  /\ UNCHANGED <<recog, call, ret>>

NextPad ==
  PadTrain \/ PadCall \/ PadBegin \/ PadTemplates \/ PadRebuild \/ PadRebuilt \/ PadEnd

SpecPad == InitPad /\ [][NextPad]_vars

(***************************************************************************)
(* The average of one class of many samples                                *)
(***************************************************************************)
\* largest number of samples in the class that is averaged
MaxAveSamples == 258

\* the class that is averaged: n samples of one label, nb of them the
\* image ImgB and the others the image ImgA, the ImgB first or last
AveClass(n, nb, first) ==
  [k \in 1..n |->
     IF (first /\ k <= nb) \/ (~first /\ k > n - nb)
       THEN Sample(Txt1, ImgB) ELSE Sample(Txt1, ImgA)]

\* the centroids that recogTrainingFinished() records for a class
ClassCentroids(pixa) == [k \in DOMAIN pixa |-> pixCentroid(pixa[k].pix)]

\* the numbers of ImgB among n samples that are tried: none, all, and
\* those around half of the samples that are used
AveMixes(n) ==
  {nb \in {0, 1, (Min(n, AveLimit) \div 2) - 1, Min(n, AveLimit) \div 2,
           (Min(n, AveLimit) \div 2) + 1, n - 1, n} : nb >= 0 /\ nb <= n}

InitAverage ==
  /\ recog = recogCreate(0, 0)
  /\ call = [op |-> "recogAverageSamples"]
  /\ ret = 0
  /\ \E n \in 1..MaxAveSamples, first \in BOOLEAN :
       \E nb \in AveMixes(n) :
         ostate = [pc |-> "class", n |-> n, nb |-> nb, first |-> first]

\* recog->ptaa_u of a recognizer that holds the one class pixa: the
\* centroids of the class when training is finished, NULL before
CentroidsHeld(pixa, done) ==
  IF done THEN Ptr(<<ClassCentroids(pixa)>>) ELSE NULL

\* one pass of the first loop of recogAverageSamples(), on a recognizer
\* whose training is finished or not: the class is averaged with the
\* centroids that ptaaGetPta(recog->ptaa_u, i, L_CLONE) gives, which is
\* NULL before training is finished
AverageOneClass ==
  /\ ostate.pc = "class"
  /\ \E done \in BOOLEAN :
       ostate' = [pc |-> "averaged", n |-> ostate.n, nb |-> ostate.nb,
                  first |-> ostate.first, done |-> done,
                  ave |-> AverageClass(
                            Ptr(AveClass(ostate.n, ostate.nb, ostate.first)),
                            pixaaGetPixa(
                              CentroidsHeld(AveClass(ostate.n, ostate.nb, ostate.first), done),
                              0))]
  /\ UNCHANGED <<recog, call, ret>>

\* pixaAccumulateSamples() on the class, once without a centroid array
\* and once with the centroids of the same samples
AccumulateBothWays ==
  /\ ostate.pc = "class"
  /\ ostate' = [pc |-> "accumulated", n |-> ostate.n, nb |-> ostate.nb, first |-> ostate.first,
                alone |-> pixaAccumulateSamples(
                            Ptr(AveClass(ostate.n, ostate.nb, ostate.first)), NULL),
                given |-> pixaAccumulateSamples(
                            Ptr(AveClass(ostate.n, ostate.nb, ostate.first)),
                            Ptr(ClassCentroids(AveClass(ostate.n, ostate.nb, ostate.first))))]
  /\ UNCHANGED <<recog, call, ret>>

NextAverage == AverageOneClass \/ AccumulateBothWays

SpecAverage == InitAverage /\ [][NextAverage]_vars

(***************************************************************************)
(* Properties of ingestion                                                 *)
(***************************************************************************)
\* the label string of a recogTrainLabeled() call: the explicit text, or
\* the text in the pix when there is none
CallTextdata(c) == IF c.text # NoText THEN c.text ELSE c.pixtext

\* the number of samples held in the unscaled store
RECURSIVE StoreSize(_)
StoreSize(paa) == IF paa = <<>> THEN 0 ELSE Len(Head(paa)) + StoreSize(Tail(paa))

\* the sample store, the class set and the sample counter
Store(rec) ==
  [pixaa_u |-> rec.pixaa_u, dna_tochar |-> rec.dna_tochar, sa_text |-> rec.sa_text,
   setsize |-> rec.setsize, num_samples |-> rec.num_samples]

IsMultMismatch(c) ==
  /\ c.op = "recogTrainLabeled"
  /\ c.multflag = 1
  /\ Len(c.ext) # Len(CallTextdata(c))

\* C1: a multi-symbol recogTrainLabeled() call in which the number of
\* regions found differs from the length of the label string returns 1 and
\* leaves every class's samples and the sample counter as they were.
C1_SegmentationMismatch ==
  [][IsMultMismatch(call') =>
       /\ ret' = 1
       /\ recog'.pixaa_u = recog.pixaa_u
       /\ recog'.num_samples = recog.num_samples]_vars

\* a mismatching call with a label and at least one region has returned,
\* on a recognizer that holds samples
C1_Witness ==
  /\ IsMultMismatch(call)
  /\ CallTextdata(call) # NoText
  /\ Len(call.ext) > 0
  /\ ret = 1
  /\ StoreSize(recog.pixaa_u) > 0
  /\ ~recog.train_done

\* C2: on a recognizer whose training is finished every recogAddSamples()
\* call returns 1 and leaves the sample store, the class set and the
\* sample counter unchanged, forced class index or not.
C2_NoAddAfterFinish ==
  [][(recog.train_done /\ call'.op = "recogAddSamples") =>
       /\ ret' = 1
       /\ Store(recog') = Store(recog)]_vars

\* a batch of labeled samples has been refused after training finished
C2_Witness ==
  /\ call.op = "recogAddSamples"
  /\ recog.train_done
  /\ Len(call.pixa) > 0
  /\ \A k \in DOMAIN call.pixa : l_convertCharstrToInt(call.pixa[k].text).ret = 0
  /\ ret = 1

\* C3: a recogTrainLabeled() call that stores no sample returns 1.
C3_ErrorsReported ==
  [][(call'.op = "recogTrainLabeled" /\ recog'.pixaa_u = recog.pixaa_u) => ret' = 1]_vars

\* a call for images without any label: recogTrainLabeled() with neither
\* text, or recogAddSamples() without a forced class index for samples
\* that all have no text
IsNoLabelCall(c) ==
  \/ /\ c.op = "recogTrainLabeled"
     /\ c.text = NoText
     /\ c.pixtext = NoText
  \/ /\ c.op = "recogAddSamples"
     /\ c.classindex < 0
     /\ Len(c.pixa) > 0
     /\ \A k \in DOMAIN c.pixa : c.pixa[k].text = NoText

\* C4: an ingestion call for images that have no label returns 1 and
\* stores nothing.
C4_NoLabelFails ==
  [][IsNoLabelCall(call') =>
       /\ ret' = 1
       /\ Store(recog') = Store(recog)]_vars

\* the texts among those of a batch that convert to a character value and
\* name no class of sa, in the order in which they first appear
RECURSIVE NewLabels(_, _)
NewLabels(pixa, sa) ==
  IF pixa = <<>> THEN <<>>
  ELSE LET t == Head(pixa).text
       IN  IF Len(t) \in 1..4 /\ t \notin Range(sa)
             THEN <<t>> \o NewLabels(Tail(pixa), Append(sa, t))
             ELSE NewLabels(Tail(pixa), sa)

ClassesDense(rec) ==
  /\ Len(rec.sa_text) = rec.setsize
  /\ Len(rec.dna_tochar) = rec.setsize
  /\ rec.setsize <= Len(rec.pixaa_u)

LabelsUnique(rec) ==
  \A i, j \in DOMAIN rec.sa_text : i # j => rec.sa_text[i] # rec.sa_text[j]

SamplesInOwnClass(rec) ==
  \A i \in DOMAIN rec.pixaa_u : \A k \in DOMAIN rec.pixaa_u[i] :
    i <= rec.setsize /\ rec.sa_text[i] = rec.pixaa_u[i][k].text

\* C5: when no class index is forced, the classes are numbered 0..N-1 in
\* the order in which their labels first appeared, no two classes have the
\* same label, every stored sample is in the class of its own label, and
\* a batch adds one class, at the end, for each new label in it.
C5_DenseClasses ==
  /\ [](ClassesDense(recog) /\ LabelsUnique(recog) /\ SamplesInOwnClass(recog))
  /\ [][(call'.op = "recogAddSamples" /\ ~recog.train_done) =>
          /\ recog'.sa_text = recog.sa_text \o NewLabels(call'.pixa, recog.sa_text)
          /\ Len(recog'.pixaa_u) = Max(Len(recog.pixaa_u), recog'.setsize)]_vars

\* a batch has added a second class, with its own slot, after the first
C5_Witness ==
  /\ call.op = "recogAddSamples"
  /\ ret = 0
  /\ recog.setsize = 2
  /\ Len(recog.pixaa_u) = 2
  /\ Len(recog.pixaa_u[1]) > 0
  /\ Len(recog.pixaa_u[2]) > 0

\* the store after every sample of the batch is added to class index
ForcedStore(paa, index, pixa) ==
  [i \in 1..Max(Len(paa), index + 1) |->
     (IF i <= Len(paa) THEN paa[i] ELSE <<>>) \o (IF i = index + 1 THEN pixa ELSE <<>>)]

\* C6: a recogAddSamples() call with a forced class index on a recognizer
\* in training stores every sample of the batch in the class of that
\* index, whatever its text, and creates no class.
C6_ForcedIndex ==
  [][(/\ call'.op = "recogAddSamples"
      /\ call'.classindex >= 0
      /\ Len(call'.pixa) > 0
      /\ ~recog.train_done) =>
       /\ recog'.pixaa_u = ForcedStore(recog.pixaa_u, call'.classindex, call'.pixa)
       /\ recog'.sa_text = recog.sa_text
       /\ recog'.dna_tochar = recog.dna_tochar
       /\ recog'.setsize = recog.setsize]_vars

(***************************************************************************)
(* Properties of the average templates                                     *)
(***************************************************************************)
\* C7: a recogAverageSamples() call on a recognizer whose averages are
\* computed leaves the average templates, centroids and areas, unscaled
\* and modified, as the previous call left them.
C7_AverageIdempotent ==
  [][(recog.ave_done /\ call'.op = "recogAverageSamples") =>
       CachedAverages(recog') = CachedAverages(recog)]_vars

\* a second call has returned on a recognizer with an average of samples
C7_Witness ==
  /\ call.op = "recogAverageSamples"
  /\ call.done
  /\ recog.ave_done
  /\ recog.setsize > 0
  /\ \E i \in DOMAIN recog.nasum_u : recog.nasum_u[i] > 0

\* C8: when ave_done is set, the averages held are those of the samples
\* now in the store.
C8_AveragesNotStale ==
  recog.ave_done => CachedAverages(recog) = ComputedAverages(recog)

(***************************************************************************)
(* Properties of outlier removal                                           *)
(***************************************************************************)
\* the number of templates of the pixa with the text of class i
KeptOfClass(pixad, rec, i) ==
  Cardinality({k \in DOMAIN pixad : pixad[k].text = rec.sa_text[i + 1]})

\* the classes that the loop has gone through
ClassesDone(o) == IF o.pc \in {"loop", "done"} THEN 0..(o.i - 1) ELSE {}

\* ceil(n * minfract), minfract in hundredths
CeilFract(n, minfract) == (n * minfract + 99) \div 100

\* the places in the unscaled class i of the samples that have a scaled
\* template, in their order: the k-th scaled template of the class is the
\* one of the sample at the k-th of these places
ScaledPlaces(rec, i) ==
  SelectSeq([j \in DOMAIN rec.pixaa_u[i + 1] |-> j],
            LAMBDA j : recogModifyTemplate(rec, rec.pixaa_u[i + 1][j]).pix # NullPix)

\* the score of every sample of class i, as an array of one number: the
\* score that recogRemoveOutliers() computes for the scaled template of
\* the sample; the empty array for a sample without a scaled template
OwnScores(rec, corr, i) ==
  LET places  == ScaledPlaces(rec, i)
      nascore == ClassScores(rec, corr, i)
  IN  [j \in DOMAIN rec.pixaa_u[i + 1] |->
         IF \E k \in DOMAIN places : places[k] = j
           THEN <<nascore[CHOOSE k \in DOMAIN places : places[k] = j]>>
           ELSE <<>>]

\* every sample of class i has a scaled template
ClassScaled(rec, i) ==
  pixaGetCount(pixaaGetPixa(rec.pixaa, i)) = Len(rec.pixaa_u[i + 1])

\* of class i at least one sample is kept, and every sample that has the
\* largest score of the class is kept
KeepsBest(o, i) ==
  LET rec == Deref(o.recog)
      pixa_u == rec.pixaa_u[i + 1]
      own == OwnScores(rec, o.args.corr, i)
  IN  Len(pixa_u) >= 1 =>
        /\ KeptOfClass(o.pixad, rec, i) >= 1
        /\ \A j \in DOMAIN pixa_u :
             (/\ own[j] # <<>>
              /\ \A m \in DOMAIN pixa_u : own[m] # <<>> => own[m][1] <= own[j][1])
               => \E k \in DOMAIN o.pixad : o.pixad[k] = pixa_u[j]

\* C9: of every class with at least one sample, recogRemoveOutliers()
\* keeps at least one sample, and it keeps every sample that has the
\* largest score of the class.
C9_KeepsBest ==
  \A i \in ClassesDone(ostate) : KeepsBest(ostate, i)

\* of a class whose samples all have a scaled template a sample is kept,
\* and so is every sample with the largest score
KeepsBestWhenScaled ==
  \A i \in ClassesDone(ostate) :
    ClassScaled(Deref(ostate.recog), i) => KeepsBest(ostate, i)

\* a run is over in which a class of several samples with different
\* scores, all below minscore, lost some sample
SomeSampleRemoved ==
  /\ ostate.pc = "done"
  /\ \E i \in ClassesDone(ostate) :
       LET rec == Deref(ostate.recog)
           nascore == ClassScores(rec, ostate.args.corr, i)
       IN  /\ ClassScaled(rec, i)
           /\ Len(nascore) >= 2
           /\ numaGetMax(nascore) < ostate.minscore
           /\ KeptOfClass(ostate.pixad, rec, i) < Len(nascore)

\* a run on a single template that could not be scaled is over: its class
\* has no scaled template and no score, and nothing is kept
NothingKept ==
  /\ ostate.pc = "done"
  /\ ostate.args.pixas = <<Unscalable>>
  /\ Deref(ostate.recog).pixaa_u = <<(<<Unscalable>>)>>
  /\ ClassScores(Deref(ostate.recog), ostate.args.corr, 0) = <<>>
  /\ ostate.pixad = <<>>
  /\ ostate.pixarem = <<>>

\* a run on the template that could not be scaled, followed by a
\* template of its class that was scaled, is over: the class has one
\* score, 0, which belongs to the second template; the first template is
\* kept and the second one is in no output
KeptInPlaceOfScored ==
  /\ ostate.pc = "done"
  /\ ostate.debug = 1
  /\ ostate.args.pixas = <<Unscalable, Sample(Txt1, ImgC)>>
  /\ ScaledPlaces(Deref(ostate.recog), 0) = <<2>>
  /\ ClassScores(Deref(ostate.recog), ostate.args.corr, 0) = <<0>>
  /\ ostate.pixad = <<Unscalable>>
  /\ ostate.pixarem = <<>>

\* C10: of every class with n >= 1 samples, recogRemoveOutliers() keeps
\* at least ceil(n * minfract) samples.
C10_KeepsFraction ==
  \A i \in ClassesDone(ostate) :
    LET rec == Deref(ostate.recog)
        n == Len(rec.pixaa_u[i + 1])
    IN  n >= 1 => KeptOfClass(ostate.pixad, rec, i) >= CeilFract(n, ostate.minfract)

\* the number of places of the array at which s is
CountIn(seq, s) == Cardinality({k \in DOMAIN seq : seq[k] = s})

\* the outputs of the run o: a sample of a class is in the kept output
\* exactly if its score is at least min(maxScoreInClass, min(minScore,
\* rankScore)) of its class; with the debug outputs every other sample is
\* in the removed output once, its score at the same place of the removed
\* scores, so that kept and removed partition the input; without them
\* nothing is reported as removed
KeptIffAtThreshold(o) ==
  LET rec == Deref(o.recog)
  IN  /\ \A i \in 0..(rec.setsize - 1) :
           LET pixa_u == rec.pixaa_u[i + 1]
               nascore == ClassScores(rec, o.args.corr, i)
               own == OwnScores(rec, o.args.corr, i)
               thresh == Min(numaGetMax(nascore),
                             Min(o.minscore,
                                 numaGetRankValue(nascore, RankFract(o.minfract))))
               keep(s) == {j \in DOMAIN pixa_u :
                             pixa_u[j] = s /\ own[j] # <<>> /\ own[j][1] >= thresh}
               drop(s) == {j \in DOMAIN pixa_u : pixa_u[j] = s} \ keep(s)
           IN  \A s \in Range(pixa_u) :
                 /\ CountIn(o.pixad, s) = Cardinality(keep(s))
                 /\ CountIn(o.pixarem, s) =
                      (IF o.debug = 1 THEN Cardinality(drop(s)) ELSE 0)
                 /\ \A k \in DOMAIN o.pixarem :
                      o.pixarem[k] = s /\ k \in DOMAIN o.narem =>
                        \E j \in drop(s) : own[j] = <<>> \/ own[j][1] = o.narem[k]
      /\ Len(o.pixarem) = Len(o.narem)
      /\ o.debug = 1 => Len(o.pixad) + Len(o.pixarem) = Len(o.args.pixas)
      /\ o.debug = 0 => o.pixarem = <<>>
      /\ \A k \in DOMAIN o.pixad : o.pixad[k] \in Range(o.args.pixas)

\* every sample of every class of the recognizer has a scaled template
AllClassesScaled(rec) ==
  \A i \in 0..(rec.setsize - 1) : ClassScaled(rec, i)

\* C11: when recogRemoveOutliers() is over, a sample of a class is in the
\* kept output exactly if its score is at least min(maxScoreInClass,
\* min(minScore, rankScore)) of its class; with the debug outputs every
\* other sample is in the removed output once, its score at the same place
\* of the removed scores, so that kept and removed partition the input;
\* without them nothing is reported as removed.
C11_KeptIffAtThreshold ==
  ostate.pc = "done" => KeptIffAtThreshold(ostate)

\* the same when every template given could be scaled
KeptIffAtThresholdWhenScaled ==
  ostate.pc = "done" /\ AllClassesScaled(Deref(ostate.recog)) =>
    KeptIffAtThreshold(ostate)

\* a run with the debug outputs, on templates that could all be scaled,
\* is over in which a class had a sample kept and another one removed
KeptAndRemoved ==
  /\ ostate.pc = "done"
  /\ ostate.debug = 1
  /\ AllClassesScaled(Deref(ostate.recog))
  /\ \E k \in DOMAIN ostate.pixad, m \in DOMAIN ostate.pixarem :
       ostate.pixad[k].text = ostate.pixarem[m].text

\* a run with the debug outputs on a template that was scaled, followed
\* by the template of its class that could not be scaled, is over: the
\* first is kept on the score 0 and the second is in no output
SampleInNoOutput ==
  /\ ostate.pc = "done"
  /\ ostate.debug = 1
  /\ ostate.args.pixas = <<Sample(Txt1, ImgC), Unscalable>>
  /\ ClassScores(Deref(ostate.recog), ostate.args.corr, 0) = <<0>>
  /\ ostate.pixad = <<Sample(Txt1, ImgC)>>
  /\ ostate.pixarem = <<>>
  /\ ostate.narem = <<>>

\* C12: with minscore 0.75 and minfract 0.5, of a class of ten templates
\* of which one scores 0.10 and nine score 0.80 or more,
\* recogRemoveOutliers() keeps the nine and removes the one that scores
\* 0.10; the threshold of the class is 0.75.
C12_ScenarioTen ==
  ostate.pc = "done" =>
    LET rec == Deref(ostate.recog)
        nascore == ClassScores(rec, ostate.args.corr, 0)
    IN  /\ ThreshScore(nascore, ostate.minscore, ostate.minfract) = 75
        /\ Len(ostate.pixad) = ScenarioSize - 1
        /\ CountIn(ostate.pixad, LowSample) = 0
        /\ \A s \in {HighSample1, HighSample2} :
             CountIn(ostate.pixad, s) = CountIn(ostate.args.pixas, s)
        /\ ostate.debug = 1 => ostate.pixarem = <<LowSample>> /\ ostate.narem = <<10>>

\* a run on the ten templates is over, the nine good ones having two
\* different scores
C12_Witness ==
  /\ ostate.pc = "done"
  /\ Len(ostate.args.pixas) = ScenarioSize
  /\ ostate.minscore = 75 /\ ostate.minfract = 50
  /\ Cardinality({ostate.args.corr[t] : t \in DOMAIN ostate.args.corr}) = 3
  /\ Len(ostate.pixad) = 9

\* the value recogRemoveOutliers() is to use for a parameter given as v,
\* in hundredths: 1 for a value above 1, the default for a value that is
\* not positive, otherwise the value
Effective(v, default) ==
  IF v > 100 THEN 100 ELSE IF v <= 0 THEN default ELSE v

\* C13: the minscore and minfract that recogRemoveOutliers() works with
\* lie in (0, 1]: a given value above 1 is replaced by 1, a given value
\* that is not positive by the default (0.75 for minscore, 0.5 for
\* minfract), and a value in (0, 1] is used unchanged.
C13_ParametersInRange ==
  ostate.pc \in {"loop", "done", "crash"} =>
    /\ ostate.minscore = Effective(ostate.args.minscore, 75)
    /\ ostate.minfract = Effective(ostate.args.minfract, 50)
    /\ ostate.minscore > 0 /\ ostate.minscore <= 100
    /\ ostate.minfract > 0 /\ ostate.minfract <= 100

\* a run works with a minscore that was given above 1 and a minfract that
\* was given as 0
C13_Witness ==
  /\ ostate.pc = "done"
  /\ ostate.args.minscore > 100 /\ ostate.minscore = 100
  /\ ostate.args.minfract = 0 /\ ostate.minfract = 50

\* the output that recogTrainFromBoot() is to give: in the order of the
\* input, a copy of each sample whose scaled copy is identified with a
\* score of at least minscore, labeled with the text of the
\* identification; a sample without a scaled copy is not identified
RECURSIVE BootExpected(_, _)
BootExpected(args, k) ==
  IF k = 0 THEN <<>>
  ELSE LET pix == args.pixas[k].pix
           pix2 == pixScaleToSize(pix, 0, BootScaleH)
       IN  IF pix2 # NullPix /\ args.ident[pix2].score >= args.minscore
             THEN Append(BootExpected(args, k - 1), Sample(args.ident[pix2].text, pix))
             ELSE BootExpected(args, k - 1)

\* C14: a call of recogTrainFromBoot() on samples ends with the output
\* that holds, in the order of the input, a copy of the original of
\* exactly the samples identified with a score of at least minscore, each
\* labeled with the text of its identification.
C14_AcceptedByScore ==
  ostate.pc \in {"bootdone", "bootcrash"} =>
    /\ ostate.pc = "bootdone"
    /\ ostate.pixad = BootExpected(ostate.args, Len(ostate.args.pixas))

\* every sample of the call has a scaled copy
AllScaled(args) ==
  \A k \in DOMAIN args.pixas : pixScaleToSize(args.pixas[k].pix, 0, BootScaleH) # NullPix

\* the calls that return, on samples that all have a scaled copy, give the
\* output of the claim
BootReturnedOutput ==
  (ostate.pc = "bootdone" /\ AllScaled(ostate.args)) =>
    ostate.pixad = BootExpected(ostate.args, Len(ostate.args.pixas))

\* a call on a sample without a scaled copy followed by a sample that is
\* accepted has returned: the output is a copy of the first sample, which
\* was never identified, with the label found for the second one
PairedWithAnotherSample ==
  /\ ostate.pc = "bootdone"
  /\ Len(ostate.args.pixas) = 2
  /\ ostate.args.pixas[1].pix = ImgT /\ ostate.args.pixas[2].pix = ImgB
  /\ Len(ostate.pixad) = 1
  /\ ostate.pixad[1].pix = ImgT
  /\ BootExpected(ostate.args, 2)[1].pix = ImgB

\* the numbers of unscaled samples of the classes of a trained model
ClassCounts(rec) == [i \in 1..pixaaGetCount(rec.pixaa_u) |-> Len(rec.pixaa_u[i])]

\* padding is to be done: there are fewer classes than the character set
\* has, or some class has fewer than min_nopad samples
PaddingExpected(rec) ==
  \/ pixaaGetCount(rec.pixaa_u) < rec.charset_size
  \/ \E i \in DOMAIN ClassCounts(rec) : ClassCounts(rec)[i] < rec.min_nopad

\* C15: recogPadDigitTrainingSet() decides that padding is needed exactly
\* when the model has fewer classes than the size of its character set or
\* a class with fewer than min_nopad unscaled samples; otherwise it
\* returns 0 and the caller keeps the same model, which is not destroyed.
C15_PadIffDeficient ==
  /\ ostate.pc = "merge" => PaddingExpected(recog)
  /\ (ostate.pc = "padded" /\ ostate.sa = NULL) => ~PaddingExpected(recog)
  /\ (ostate.pc = "padded" /\ ~PaddingExpected(recog)) =>
       /\ ostate.ret = 0
       /\ ostate.sa = NULL
       /\ ostate.precog = Ptr("recog1")
       /\ ~ostate.destroyed

\* what the code decides on: the number of classes differs from the size
\* of the character set, or a class has fewer than min_nopad samples
PadDecisionInCode ==
  ostate.pc \notin {"train", "pad"} =>
    (ostate.sa # NULL <=>
       \/ pixaaGetCount(recog.pixaa_u) # recog.charset_size
       \/ \E i \in DOMAIN ClassCounts(recog) : ClassCounts(recog)[i] < recog.min_nopad)

\* a model with more classes than its character set has, each with
\* min_nopad samples or more, was replaced
PadOfLargerModel ==
  /\ ostate.pc = "padded"
  /\ recog.charset_type = L_ARABIC_NUMERALS
  /\ ostate.ret = 0
  /\ pixaaGetCount(recog.pixaa_u) > recog.charset_size
  /\ ~PaddingExpected(recog)
  /\ ostate.destroyed

\* the labels of a digit model that are deficient: the digits without a
\* class, and the labels of the classes with fewer than min_nopad samples
DeficientLabels(rec) ==
  {DigitText(d) : d \in {e \in 0..9 : \A i \in DOMAIN rec.sa_text : rec.sa_text[i] # DigitText(e)}}
    \cup {rec.sa_text[i] : i \in {j \in DOMAIN ClassCounts(rec) : ClassCounts(rec)[j] < rec.min_nopad}}

\* C16: when padding is needed for a digit model, the strings returned by
\* recogIsPaddingNeeded() are exactly the deficient labels: each digit
\* '0'..'9' without a class, each label of a class with fewer than
\* min_nopad unscaled samples, and no other label.
C16_ExactlyDeficient ==
  (ostate.pc = "merge" /\ recog.charset_type = L_ARABIC_NUMERALS) =>
    Range(Deref(ostate.sa)) = DeficientLabels(recog)

\* what the code returns: of the digits without a class only those below
\* the number of classes
MissingBelowCount ==
  (ostate.pc = "merge" /\ recog.charset_type = L_ARABIC_NUMERALS) =>
    Range(Deref(ostate.sa)) =
      {l \in DeficientLabels(recog) :
         \/ l \in Range(recog.sa_text)
         \/ /\ l[1] - 48 < pixaaGetCount(recog.pixaa_u)
            /\ pixaaGetCount(recog.pixaa_u) # 10}

\* a model of the digits 0 and 1 with min_nopad samples each is found to
\* need padding, and no label is returned
NoLabelForMissingDigits ==
  /\ ostate.pc = "merge"
  /\ recog.charset_type = L_ARABIC_NUMERALS
  /\ Range(recog.sa_text) = {DigitText(0), DigitText(1)}
  /\ Deref(ostate.sa) = <<>>

\* C17: when padding is needed and the character set of the model is not
\* the arabic numerals, recogPadDigitTrainingSet() returns 1, the caller's
\* reference is still the model it gave, and that model is neither
\* destroyed nor rebuilt.
C17_UnavailableCharset ==
  (ostate.pc = "padded" /\ ostate.sa # NULL
     /\ recog.charset_type # L_ARABIC_NUMERALS) =>
    /\ ostate.ret = 1
    /\ ostate.precog = Ptr("recog1")
    /\ ~ostate.destroyed
    /\ ostate.pixa = NULL /\ ostate.recog2 = NULL

\* the model is the one the caller trained, all the call long
PadModelKept == [][ostate.pc \notin {"train"} => recog' = recog]_vars

\* a call on a roman-numerals model with a class under min_nopad returned
C17_Witness ==
  /\ ostate.pc = "padded"
  /\ recog.charset_type = L_LC_ROMAN_NUMERALS
  /\ ostate.sa # NULL /\ Deref(ostate.sa) # <<>>
  /\ ostate.ret = 1

\* the labels of the ten digits
DigitLabels == {DigitText(d) : d \in 0..9}

\* a digit model of the classes '0'..'9' with exactly 3 unscaled samples
\* each, and min_nopad 5
TenByThree(rec) ==
  /\ rec.charset_type = L_ARABIC_NUMERALS
  /\ rec.min_nopad = 5
  /\ Len(rec.sa_text) = 10
  /\ Range(rec.sa_text) = DigitLabels
  /\ ClassCounts(rec) = [i \in 1..10 |-> 3]

\* C18: for a digit model of the classes '0'..'9' with exactly 3 samples
\* each and min_nopad 5, recogIsPaddingNeeded() returns all ten labels,
\* and recogPadDigitTrainingSet() returns 0 and leaves the caller with a
\* rebuilt model of the ten digit classes that has 5 unscaled samples or
\* more in each.
C18_TenDigitsPadded ==
  TenByThree(recog) =>
    /\ ostate.pc = "merge" =>
         /\ Range(Deref(ostate.sa)) = DigitLabels
         /\ Len(Deref(ostate.sa)) = 10
    /\ ostate.pc = "padded" =>
         /\ ostate.ret = 0
         /\ ostate.precog = Ptr("recog2")
         /\ ostate.recog2 # NULL
         /\ Range(Deref(ostate.recog2).sa_text) = DigitLabels
         /\ pixaaGetCount(Deref(ostate.recog2).pixaa_u) = 10
         /\ \A i \in 1..10 : ClassCounts(Deref(ostate.recog2))[i] >= 5

\* the call on the model of the scenario returned, the model having been
\* trained from '9' down to '0'
C18_Witness ==
  /\ TenByThree(recog)
  /\ recog.sa_text[1] = DigitText(9)
  /\ ostate.pc = "padded"
  /\ ostate.recog2 # NULL
  /\ ClassCounts(Deref(ostate.recog2)) =
       [i \in 1..10 |-> 3 + BootTemplatesOf(Deref(ostate.recog2).sa_text[i])]
  /\ ClassCounts(Deref(ostate.recog2))[1] = 11

\* the number of times a sample is among the unscaled samples of a model
CountInModel(rec, s) ==
  Cardinality({p \in UNION {{<<i, j>> : j \in DOMAIN rec.pixaa_u[i]} : i \in DOMAIN rec.pixaa_u} :
                 rec.pixaa_u[p[1]][p[2]] = s})

\* pixa holds each unscaled sample of the model and each generator
\* template with a label of sa as many times as it is there, and nothing
\* else
MergedExactly(rec, sa, pixa) ==
  \A s \in Range(pixa) \cup Range(recogMakeBootDigitTemplates)
             \cup UNION {Range(rec.pixaa_u[i]) : i \in DOMAIN rec.pixaa_u} :
    CountIn(pixa, s) =
      CountInModel(rec, s)
        + (IF pixGetText(s) \in Range(sa)
             THEN CountIn(recogMakeBootDigitTemplates, s) ELSE 0)

\* C19: the pixa made by recogAddDigitPadTemplates() holds every unscaled
\* sample of the given model and every generator template whose label is
\* in the list of deficient labels, each exactly once, and no generator
\* template with another label; the model's samples are left as they are.
C19_MergedSet ==
  [][(ostate.pc = "merge" /\ ostate'.pc = "create") =>
       /\ recog' = recog
       /\ MergedExactly(recog, Deref(ostate.sa), Deref(ostate'.pixa))]_vars

\* a pixa was made for a model with samples, with the templates of some
\* digits and without those of others
C19_Witness ==
  /\ ostate.pc = "create" /\ ostate.k = 0
  /\ recog.num_samples > 0
  /\ Len(Deref(ostate.pixa)) > recog.num_samples
  /\ \E t \in Range(recogMakeBootDigitTemplates) : t \notin Range(Deref(ostate.pixa))

\* C20: the replacement of the model by recogPadDigitTrainingSet() is
\* atomic for the caller: when the call has returned, the caller's
\* reference is the model it gave, not destroyed, or, with the return
\* value 0, a new model whose training is finished; it is never NULL, and
\* the given model is destroyed only when a new model exists.
C20_AtomicReplacement ==
  /\ ostate.precog # NULL
  /\ ostate.destroyed => ostate.recog2 # NULL
  /\ ostate.pc = "padded" =>
       \/ /\ ostate.precog = Ptr("recog1")
          /\ ~ostate.destroyed
       \/ /\ ostate.ret = 0
          /\ ostate.precog = Ptr("recog2")
          /\ ostate.recog2 # NULL
          /\ Deref(ostate.recog2).train_done

\* the calls that make a pixa with a labeled sample end as the claim says
ReplacedWhenBuilt ==
  (ostate.pc = "padded" /\ ostate.pixa # NULL /\ Deref(ostate.pixa) # <<>>) =>
    /\ ostate.ret = 0
    /\ ostate.precog = Ptr("recog2")
    /\ ostate.destroyed
    /\ ostate.recog2 # NULL
    /\ Deref(ostate.recog2).train_done

\* the call on a digit model without samples returned 0 and left the
\* caller without a model
PadOfEmptyModel ==
  /\ ostate.pc = "padded"
  /\ recog.num_samples = 0
  /\ ostate.ret = 0
  /\ ostate.precog = NULL
  /\ ostate.destroyed

(***************************************************************************)
(* Properties of averaging, finishing and ingestion: second part          *)
(***************************************************************************)
\* for each class of the collection paa (a pointer) with exactly one
\* sample, the average held in c is that sample, with its centroid and its
\* number of foreground pixels
SingleSampleAverage(paa, c, size) ==
  \A i \in 1..size :
    pixaGetCount(pixaaGetPixa(paa, i - 1)) = 1 =>
      /\ i <= Len(c.pixa) /\ i <= Len(c.pta) /\ i <= Len(c.nasum)
      /\ c.pixa[i] = Deref(paa)[i][1].pix
      /\ c.pta[i] = pixCentroid(Deref(paa)[i][1].pix)
      /\ c.nasum[i] = pixCountPixels(Deref(paa)[i][1].pix)

\* C21: when recogAverageSamples() has computed the averages, the average
\* template of each class with exactly one sample is that sample, pixel
\* for pixel, its centroid is the centroid of the sample and its area the
\* number of foreground pixels of the sample, in the unscaled and in the
\* modified collection.
C21_SingleSampleAverage ==
  (call.op = "recogAverageSamples" /\ ~call.done) =>
    /\ SingleSampleAverage(Ptr(recog.pixaa_u), CachedAverages(recog).u, recog.setsize)
    /\ SingleSampleAverage(recog.pixaa, CachedAverages(recog).m, recog.setsize)

\* the entries of class i in an array of arrays given by a pointer
EntriesOf(pp, i) ==
  IF pp = NULL THEN <<>>
  ELSE IF i > Len(Deref(pp)) THEN <<>>
  ELSE Deref(pp)[i]

\* every unscaled sample of the classes below setsize has a modified
\* template: none was lost in the scaling
AllModified(rec) ==
  \A i \in DOMAIN rec.pixaa_u :
    i <= rec.setsize => Len(EntriesOf(rec.pixaa, i)) = Len(rec.pixaa_u[i])

\* on a recognizer whose training is finished, with a modified template
\* for every sample, the averages of the classes with one sample are as
\* the claim says
SingleSampleAverageWhenFinished ==
  (call.op = "recogAverageSamples" /\ ~call.done /\ recog.train_done
     /\ AllModified(recog)) =>
    /\ SingleSampleAverage(Ptr(recog.pixaa_u), CachedAverages(recog).u, recog.setsize)
    /\ SingleSampleAverage(recog.pixaa, CachedAverages(recog).m, recog.setsize)

\* the averages were computed for a class with one sample before the
\* training was finished, and the average template is not the sample
ShiftedSingleAverage ==
  /\ call.op = "recogAverageSamples" /\ ~call.done
  /\ ~recog.train_done
  /\ recog.setsize = 1
  /\ Len(recog.pixaa_u[1]) = 1
  /\ recog.pixa_u[1] # recog.pixaa_u[1][1].pix

\* the averages were computed on a finished recognizer with a class of one
\* sample of more than one foreground pixel
SingleAverageOfFinished ==
  /\ call.op = "recogAverageSamples" /\ ~call.done
  /\ recog.train_done
  /\ \E i \in 1..recog.setsize :
       /\ Len(recog.pixaa_u[i]) = 1
       /\ pixCountPixels(recog.pixaa_u[i][1].pix) > 1
       /\ recog.pixa_u[i] = recog.pixaa_u[i][1].pix

\* class i of a finished recognizer has as many modified samples,
\* centroids and areas as it has unscaled samples, and the j-th of each is
\* that of the j-th unscaled sample
ClassAligned(rec, i) ==
  LET pixa_u == rec.pixaa_u[i]
  IN  /\ Len(EntriesOf(rec.pixaa, i)) = Len(pixa_u)
      /\ Len(EntriesOf(rec.ptaa_u, i)) = Len(pixa_u)
      /\ Len(EntriesOf(rec.ptaa, i)) = Len(pixa_u)
      /\ Len(EntriesOf(rec.naasum_u, i)) = Len(pixa_u)
      /\ Len(EntriesOf(rec.naasum, i)) = Len(pixa_u)
      /\ \A j \in DOMAIN pixa_u :
           /\ EntriesOf(rec.pixaa, i)[j] \in {pixa_u[j], recogModifyTemplate(rec, pixa_u[j])}
           /\ EntriesOf(rec.ptaa_u, i)[j] = pixCentroid(pixa_u[j].pix)
           /\ EntriesOf(rec.naasum_u, i)[j] = pixCountPixels(pixa_u[j].pix)
           /\ EntriesOf(rec.ptaa, i)[j] = pixCentroid(EntriesOf(rec.pixaa, i)[j].pix)
           /\ EntriesOf(rec.naasum, i)[j] = pixCountPixels(EntriesOf(rec.pixaa, i)[j].pix)

\* C22: in a recognizer whose training is finished, every class has the
\* same number of unscaled samples, modified samples, centroids and areas,
\* and the i-th modified sample is derived from the i-th unscaled sample;
\* also for the classes filled through a forced class index.
C22_CollectionsAligned ==
  recog.train_done => \A i \in DOMAIN recog.pixaa_u : ClassAligned(recog, i)

\* the classes that recogTrainingFinished() goes through, those below
\* setsize, are aligned when they have a modified template for every
\* sample, and have a centroid and an area for every sample in any case
AlignedBelowSetsize ==
  recog.train_done =>
    \A i \in DOMAIN recog.pixaa_u :
      i <= recog.setsize =>
        /\ Len(EntriesOf(recog.pixaa, i)) = Len(recog.pixaa_u[i]) => ClassAligned(recog, i)
        /\ Len(EntriesOf(recog.pixaa, i)) <= Len(recog.pixaa_u[i])
        /\ Len(EntriesOf(recog.ptaa, i)) = Len(recog.pixaa_u[i])
        /\ Len(EntriesOf(recog.naasum, i)) = Len(recog.pixaa_u[i])

\* a finished recognizer has, in a class below setsize, a sample that
\* could not be scaled: there is no modified template for it, but a
\* centroid (0, 0) and an area 0
TemplateNotStored ==
  /\ recog.train_done
  /\ recog.setsize = 1
  /\ Len(recog.pixaa_u[1]) = 1
  /\ EntriesOf(recog.pixaa, 1) = <<>>
  /\ EntriesOf(recog.ptaa, 1) = <<[x |-> FZero, y |-> FZero]>>
  /\ EntriesOf(recog.naasum, 1) = <<0>>

\* a finished recognizer holds unscaled samples, put there with a forced
\* class index, in a class without modified samples
ForcedClassNotFinished ==
  /\ recog.train_done
  /\ \E i \in DOMAIN recog.pixaa_u :
       /\ i > recog.setsize
       /\ recog.pixaa_u[i] # <<>>
       /\ EntriesOf(recog.pixaa, i) = <<>>

\* C23: recogAverageSamples() on a recognizer without classes fails: it
\* returns 1 and does not set ave_done.
C23_NoClassesFails ==
  (call.op = "recogAverageSamples" /\ recog.setsize = 0
     /\ \A i \in DOMAIN recog.pixaa_u : recog.pixaa_u[i] = <<>>) =>
    /\ ret = 1
    /\ ~recog.ave_done

\* the call on a recognizer without classes returned 0 with ave_done set
AveragedNothing ==
  /\ call.op = "recogAverageSamples"
  /\ recog.setsize = 0 /\ recog.num_samples = 0
  /\ ret = 0
  /\ recog.ave_done
  /\ recog.pixa_u = <<>>

\* recogRemoveOutliers() on no templates has no recognizer to work with
\* and does not return
OutliersOfNothing ==
  /\ ostate.pc = "crash"
  /\ ostate.args.pixas = <<>>
  /\ ostate.recog = NULL

\* a text that l_convertCharstrToInt() converts to a character value
ValidLabel(text) == Len(text) \in 1..4

\* the label recogTrainLabeled() gives to the sample of a call
CallLabel(c) == IF c.text # NoText THEN c.text ELSE c.pixtext

\* C24: a failure on one sample does not stop the others: recogAddSamples()
\* without a forced class index stores every sample of the batch whose
\* text is converted, before and after one whose text is not, which it
\* skips; a recogTrainLabeled() call that fails leaves the recognizer as
\* it is, still in training, and a call for one character with a valid
\* label and an image stores its sample, whatever came before.
C24_FailuresDoNotAbort ==
  /\ [][(call'.op = "recogAddSamples" /\ call'.classindex < 0 /\ ~recog.train_done) =>
          /\ ret' = 0
          /\ \A s \in SampleKinds :
               CountInModel(recog', s) =
                 CountInModel(recog, s)
                   + (IF ValidLabel(s.text) THEN CountIn(call'.pixa, s) ELSE 0)]_vars
  /\ [][(call'.op = "recogTrainLabeled" /\ ret' = 1) => recog' = recog]_vars
  /\ [][(/\ call'.op = "recogTrainLabeled"
         /\ ~recog.train_done
         /\ call'.multflag = 0
         /\ call'.ext # NullPix
         /\ ValidLabel(CallLabel(call'))) =>
          /\ ret' = 0
          /\ CountInModel(recog', Sample(CallLabel(call'), call'.ext))
               = CountInModel(recog, Sample(CallLabel(call'), call'.ext)) + 1]_vars

\* a batch of a sample without a valid label followed by one with a valid
\* label was given to a recognizer without samples, and the second is
\* stored
C24_Witness ==
  /\ call.op = "recogAddSamples"
  /\ call.classindex < 0
  /\ Len(call.pixa) = 2
  /\ ~ValidLabel(call.pixa[1].text)
  /\ ValidLabel(call.pixa[2].text)
  /\ ~recog.train_done
  /\ recog.num_samples = 1
  /\ CountInModel(recog, call.pixa[2]) = 1

\* the region of a segmentation that is i-th in increasing x
RegionAt(boxa, i) ==
  CHOOSE b \in Range(boxa) : Cardinality({c \in Range(boxa) : c.x < b.x}) = i - 1

\* the samples a call for several characters is to produce: the i-th is
\* the i-th region from the left with the i-th character of the label
ExpectedMult(c) ==
  [i \in 1..Len(CallLabel(c)) |->
     Sample(<<CallLabel(c)[i]>>, RegionAt(c.ext, i).pix)]

\* C25: a recogTrainLabeled() call for several characters that succeeds
\* with a label of k characters produces exactly k samples, the i-th being
\* the region that is i-th in increasing x, labeled with the i-th character
\* of the label; on a recognizer in training these samples are stored.
C25_RegionsMatchLabel ==
  [][(call'.op = "recogTrainLabeled" /\ call'.multflag = 1 /\ ret' = 0) =>
       /\ Len(call'.ext) = Len(CallLabel(call'))
       /\ recogProcessMultLabeled(recog, [text |-> call'.pixtext], call'.text, call'.ext).pixa
            = ExpectedMult(call')
       /\ ~recog.train_done =>
            \A s \in Range(ExpectedMult(call')) :
              CountInModel(recog', s)
                = CountInModel(recog, s) + CountIn(ExpectedMult(call'), s)]_vars

\* a call with the label "12" succeeded on a segmentation that gave the
\* right region first, and the left region is stored as a "1"
C25_Witness ==
  /\ call.op = "recogTrainLabeled"
  /\ call.multflag = 1
  /\ ret = 0
  /\ call.text = Txt12
  /\ Len(call.ext) = 2
  /\ call.ext[1].x > call.ext[2].x
  /\ ~recog.train_done
  /\ recog.num_samples = 2
  /\ CountInModel(recog, Sample(Txt1, call.ext[2].pix)) = 1
  /\ CountInModel(recog, Sample(Txt2, call.ext[1].pix)) = 1

\* the samples of a class that are used for its average
UsedSamples(pixa) == SubSeq(pixa, 1, Min(Len(pixa), AveLimit))

\* the mean of the centroids of the samples, as a pair of fractions
MeanCentroid(pixa) ==
  [x |-> FDivInt(SumPts(Ptr(ClassCentroids(pixa)), Len(pixa), 1), Len(pixa)),
   y |-> FDivInt(SumPts(Ptr(ClassCentroids(pixa)), Len(pixa), 2), Len(pixa))]

\* the whole translations that bring the coordinate x of a centroid to
\* the coordinate cx of the mean centroid, to less than a pixel
Placements(x, cx) ==
  {FTrunc(FSub(cx, x))}
    \cup (IF FSub(cx, x).e = 0 THEN {} ELSE {FTrunc(FSub(cx, x)) + Sign(FSub(cx, x).n)})

\* the images of the samples
ImagesOf(pixa) == {pixa[k].pix : k \in DOMAIN pixa}

\* the alignments of the samples at the mean centroid c: a translation
\* for every image, which places the centroid of the image at c, to less
\* than a pixel in x and in y
Alignments(pixa, c) ==
  {d \in [ImagesOf(pixa) ->
            UNION {Placements(pixCentroid(im).x, c.x) \X Placements(pixCentroid(im).y, c.y) :
                     im \in ImagesOf(pixa)}] :
     \A im \in ImagesOf(pixa) :
       /\ d[im][1] \in Placements(pixCentroid(im).x, c.x)
       /\ d[im][2] \in Placements(pixCentroid(im).y, c.y)}

\* the number of samples that have foreground at the pixel p when each
\* is translated as the alignment d says
AlignedCount(pixa, d, p) ==
  Cardinality({k \in DOMAIN pixa :
     <<p[1] - d[pixa[k].pix][1], p[2] - d[pixa[k].pix][2]>> \in pixa[k].pix.fg})

\* the average template has the largest width and height of the samples
\* sz, and its foreground is the pixels where at least max(1, m \div 2)
\* of the m used samples have foreground, once they are aligned at their
\* mean centroid c
ThresholdedAtHalf(ave, used, c, sz) ==
  /\ ave.pix.w = sz.maxw
  /\ ave.pix.h = sz.maxh
  /\ \E d \in Alignments(used, c) :
       \A p \in (0..(ave.pix.w - 1)) \X (0..(ave.pix.h - 1)) :
         p \in ave.pix.fg <=> AlignedCount(used, d, p) >= Max(1, Len(used) \div 2)
  /\ ave.area = Cardinality(ave.pix.fg)

\* C26: for a class with n >= 1 samples, of which the first m = min(n, 256)
\* are used, a pixel of the average template is foreground exactly when
\* the number of used samples that have foreground there, once aligned by
\* their centroids, is at least max(1, floor(m / 2)).
C26_ThresholdAtHalf ==
  ostate.pc = "averaged" =>
    ThresholdedAtHalf(ostate.ave,
                      UsedSamples(AveClass(ostate.n, ostate.nb, ostate.first)),
                      MeanCentroid(UsedSamples(AveClass(ostate.n, ostate.nb, ostate.first))),
                      pixaSizeRange(AveClass(ostate.n, ostate.nb, ostate.first)))

\* every sample has its centroid less than a pixel from the point c, in
\* x and in y
CentroidsNear(pixa, c) ==
  \A k \in DOMAIN pixa :
    /\ FTrunc(FSub(pixCentroid(pixa[k].pix).x, c.x)) = 0
    /\ FTrunc(FSub(pixCentroid(pixa[k].pix).y, c.y)) = 0

\* on a recognizer whose training is finished the average of a class
\* whose centroids are all less than a pixel from their mean is the
\* threshold at half of the aligned samples
ThresholdAtHalfWhenNear ==
  (/\ ostate.pc = "averaged"
   /\ ostate.done
   /\ CentroidsNear(UsedSamples(AveClass(ostate.n, ostate.nb, ostate.first)),
                    MeanCentroid(UsedSamples(AveClass(ostate.n, ostate.nb, ostate.first)))))
    => ThresholdedAtHalf(ostate.ave,
                         UsedSamples(AveClass(ostate.n, ostate.nb, ostate.first)),
                         MeanCentroid(UsedSamples(AveClass(ostate.n, ostate.nb, ostate.first))),
                         pixaSizeRange(AveClass(ostate.n, ostate.nb, ostate.first)))

\* the number of samples that have foreground at the pixel p when each
\* is moved by the whole part of the difference of its centroid and the
\* point c, which is the translation of pixaAccumulateSamples()
MovedCount(pixa, c, p) ==
  Cardinality({k \in DOMAIN pixa :
     <<p[1] - FTrunc(FSub(pixCentroid(pixa[k].pix).x, c.x)),
       p[2] - FTrunc(FSub(pixCentroid(pixa[k].pix).y, c.y))>> \in pixa[k].pix.fg})

\* the point that pixaAccumulateSamples() takes for the mean centroid:
\* the mean of the centroids on a recognizer whose training is finished,
\* the origin before
MeanTaken(pixa, done) ==
  IF done THEN MeanCentroid(pixa) ELSE [x |-> FZero, y |-> FZero]

\* what the code does: the average has the largest width and height of
\* all samples of the class, and a pixel of it is foreground exactly when
\* at least max(1, m \div 2) of the m used samples have foreground there
\* after each was moved by the whole part of its centroid less the point
\* taken for the mean
ThresholdOfMoved ==
  ostate.pc = "averaged" =>
    LET used == UsedSamples(AveClass(ostate.n, ostate.nb, ostate.first))
        c == MeanTaken(used, ostate.done)
        sz == pixaSizeRange(AveClass(ostate.n, ostate.nb, ostate.first))
    IN  /\ ostate.ave.pix.w = sz.maxw
        /\ ostate.ave.pix.h = sz.maxh
        /\ \A p \in (0..(ostate.ave.pix.w - 1)) \X (0..(ostate.ave.pix.h - 1)) :
             p \in ostate.ave.pix.fg
               <=> MovedCount(used, c, p) >= Max(1, Len(used) \div 2)
        /\ ostate.ave.area = Cardinality(ostate.ave.pix.fg)

\* a class of more than 256 samples was averaged on a finished
\* recognizer; exactly 128 of the 256 used samples have foreground at the
\* pixel (1, 0), which is foreground in the average
HalfIsForeground ==
  /\ ostate.pc = "averaged"
  /\ ostate.done
  /\ ostate.n > AveLimit
  /\ CentroidsNear(UsedSamples(AveClass(ostate.n, ostate.nb, ostate.first)),
                   MeanCentroid(UsedSamples(AveClass(ostate.n, ostate.nb, ostate.first))))
  /\ Cardinality({k \in 1..AveLimit :
        <<1, 0>> \in AveClass(ostate.n, ostate.nb, ostate.first)[k].pix.fg}) = AveLimit \div 2
  /\ <<1, 0>> \in ostate.ave.pix.fg

\* a class of 256 samples was averaged on a finished recognizer; 127 of
\* them have foreground at the pixel (1, 0), which is not foreground in
\* the average
BelowHalfIsBackground ==
  /\ ostate.pc = "averaged"
  /\ ostate.done
  /\ ostate.n = AveLimit
  /\ CentroidsNear(UsedSamples(AveClass(ostate.n, ostate.nb, ostate.first)),
                   MeanCentroid(UsedSamples(AveClass(ostate.n, ostate.nb, ostate.first))))
  /\ Cardinality({k \in 1..AveLimit :
        <<1, 0>> \in AveClass(ostate.n, ostate.nb, ostate.first)[k].pix.fg})
       = (AveLimit \div 2) - 1
  /\ <<1, 0>> \notin ostate.ave.pix.fg

\* the class ImgB, ImgA, ImgA was averaged on a finished recognizer: the
\* mean centroid is at x = 0.5 and ImgB, whose centroid is at x = 1.5, is
\* moved one pixel to the right, away from the mean, so that the average
\* has the pixels (0, 0) and (2, 0); moved to the mean, ImgB would give
\* the pixels (0, 0) and (1, 0)
MovedAwayFromMean ==
  /\ ostate.pc = "averaged"
  /\ ostate.done
  /\ ostate.n = 3 /\ ostate.nb = 1 /\ ostate.first
  /\ MeanCentroid(AveClass(3, 1, TRUE)).x = [n |-> 1, e |-> 1]
  /\ pixCentroid(ImgB).x = [n |-> 3, e |-> 1]
  /\ ostate.ave.pix.fg = {<<0, 0>>, <<2, 0>>}
  /\ \A d \in Alignments(AveClass(3, 1, TRUE), MeanCentroid(AveClass(3, 1, TRUE))) :
       /\ d[ImgB] = <<-1, 0>>
       /\ AlignedCount(AveClass(3, 1, TRUE), d, <<1, 0>>) >= 1
       /\ AlignedCount(AveClass(3, 1, TRUE), d, <<2, 0>>) = 0

\* the one sample ImgB was averaged before training was finished: the
\* mean centroid is taken as (0, 0), the sample is moved by one pixel and
\* the average has the single pixel (2, 0)
UnfinishedMoved ==
  /\ ostate.pc = "averaged"
  /\ ~ostate.done
  /\ ostate.n = 1 /\ ostate.nb = 1
  /\ ostate.ave.pix.fg = {<<2, 0>>}
  /\ ostate.ave.pt = [x |-> FZero, y |-> FZero]

\* C27: pixaAccumulateSamples() without a centroid array returns the same
\* accumulated image and the same average centroid as with the centroids
\* of the same samples.
C27_SameWithoutCentroids ==
  ostate.pc = "accumulated" =>
    /\ ostate.alone.ret = ostate.given.ret
    /\ ostate.alone.pixd = ostate.given.pixd
    /\ ostate.alone.x = ostate.given.x
    /\ ostate.alone.y = ostate.given.y

\* without a centroid array the average centroid is (0, 0): the loop
\* that sums the centroids reads the array that was not given
OriginWithoutCentroids ==
  ostate.pc = "accumulated" =>
    /\ ostate.alone.ret = 0
    /\ ostate.alone.x = FZero /\ ostate.alone.y = FZero

\* one sample ImgB: with its centroid the sum is the sample, without the
\* centroid array the sample is moved by one pixel and the centroid
\* returned is (0, 0)
MovedWithoutCentroids ==
  /\ ostate.pc = "accumulated"
  /\ ostate.n = 1 /\ ostate.nb = 1
  /\ ostate.given.x = pixCentroid(ImgB).x
  /\ {p \in DOMAIN ostate.given.pixd.val : ostate.given.pixd.val[p] > 0} = ImgB.fg
  /\ ostate.alone.x = FZero
  /\ {p \in DOMAIN ostate.alone.pixd.val : ostate.alone.pixd.val[p] > 0} = {<<2, 0>>}

\* C28: without debug recogTrainFromBoot() never reads a diagnostic image
\* and adds nothing to the debug pixa of the boot recognizer, whether the
\* samples are accepted or not; with debug, when the call has returned,
\* the debug pixa has got exactly one image for each input sample.
C28_DiagnosticsOnlyWithDebug ==
  ostate.pc \in {"identify", "bootdone", "bootcrash"} =>
    /\ ostate.args.debug = 0 => ostate.pc # "bootcrash" /\ ostate.ndb = 0
    /\ ostate.args.debug = 1 /\ ostate.pc = "bootdone" =>
         ostate.ndb = Len(ostate.args.pixas)

\* what the code does with debug: one image for each sample identified
\* and one more for each sample accepted; a call with debug never ends
\* in the read of an unassigned image
RecordedPerSampleAndPerAccepted ==
  ostate.pc \in {"identify", "bootdone", "bootcrash"} /\ ostate.args.debug = 1 =>
    /\ ostate.pc # "bootcrash"
    /\ ostate.ndb = ostate.i + Len(ostate.pixad)

\* without debug only accepted samples touch the debug pixa: at most one
\* image is added for each of them, and no run with only rejected
\* samples reads the image
NothingRecordedForRejected ==
  ostate.pc \in {"identify", "bootdone", "bootcrash"} /\ ostate.args.debug = 0 =>
    /\ ostate.ndb <= Len(ostate.pixad)
    /\ ostate.pc = "bootcrash" => BootExpected(ostate.args, Len(ostate.args.pixas)) # <<>>

\* a call without debug has returned with an image added to the debug
\* pixa: the unassigned pixdb held the address of a pix
RecordedWithoutDebug ==
  /\ ostate.pc = "bootdone"
  /\ ostate.args.debug = 0
  /\ Len(ostate.pixad) = 1
  /\ ostate.ndb = 1

\* a call with debug on one sample, which is accepted, has returned with
\* two images added to the debug pixa
AcceptedRecordedTwice ==
  /\ ostate.pc = "bootdone"
  /\ ostate.args.debug = 1
  /\ Len(ostate.args.pixas) = 1 /\ Len(ostate.pixad) = 1
  /\ ostate.ndb = 2

\* a call without debug has read the unassigned image for an accepted
\* sample
UnassignedImageRead ==
  /\ ostate.pc = "bootcrash"
  /\ ostate.args.debug = 0
  /\ ostate.i < Len(ostate.pixa3)

\* the number of samples held in the unscaled sample store
StoredSamples(rec) == SumSeq([i \in DOMAIN rec.pixaa_u |-> Len(rec.pixaa_u[i])])

\* C29: while samples are added, by any calls of recogAddSamples() with
\* or without a class index, the counter num_samples is the number of
\* samples held in the unscaled sample store.
C29_CounterIsStored ==
  ~recog.train_done => recog.num_samples = StoredSamples(recog)

\* a call with no class index, or with the index of an array that
\* pixaa_u has, counts exactly the samples that it stores
CountsWhatItStores ==
  [][(/\ call'.op = "recogAddSamples"
      /\ call'.classindex < pixaaGetCount(recog.pixaa_u))
       => recog'.num_samples - recog.num_samples
            = StoredSamples(recog') - StoredSamples(recog)]_vars

\* a sample was added with a class index that pixaa_u has no array for:
\* it is counted and not stored
CountedNotStored ==
  /\ call.op = "recogAddSamples"
  /\ call.classindex >= pixaaGetCount(recog.pixaa_u)
  /\ ret = 0
  /\ recog.num_samples = Len(call.pixa)
  /\ recog.num_samples > 0
  /\ StoredSamples(recog) = 0

\* C30: recogAddSamples() with an empty pixa returns 1 and leaves the
\* recognizer as it is.
C30_EmptyBatchFails ==
  [][(call'.op = "recogAddSamples" /\ call'.pixa = <<>>)
       => ret' = 1 /\ recog' = recog]_vars

\* what the code does with an empty pixa: the recognizer is left as it
\* is, and 1 is returned only when the training is done
EmptyBatchReturn ==
  [][(call'.op = "recogAddSamples" /\ call'.pixa = <<>>)
       => recog' = recog /\ (ret' = 1 <=> recog.train_done)]_vars

\* a call with an empty pixa on a recognizer in training has returned 0
EmptyBatchAccepted ==
  /\ call.op = "recogAddSamples"
  /\ call.pixa = <<>>
  /\ ~recog.train_done
  /\ ret = 0

====
